---------------------------- MODULE Spec2Model ----------------------------
(***************************************************************************)
(* A model of nvtt::Surface (src/src/nvtt/Surface.cpp): the copy-on-write  *)
(* handle over a reference-counted Surface::Private, the shape-changing    *)
(* operations, and the extent-rounding helpers of namespace nv.            *)
(*                                                                         *)
(* Pixel values are floats in the code.  The operations modelled here only *)
(* copy, clear and overwrite them, so they are modelled by the integers    *)
(* that the floats hold (every value used is integral).                    *)
(***************************************************************************)
EXTENDS Integers, Sequences, FiniteSets, TLC

(***************************************************************************)
(* Bounds of the model.                                                    *)
(***************************************************************************)
\* Surface handles (C++ objects of type nvtt::Surface) that may be alive.
NumHandles == 2
\* Most pixels of an image of the handle specification.
MaxPixels == 2
\* Largest extent, along each axis, of an image of the shape specification.
MaxDim == 2
\* Largest input extent (width) given to getTargetExtent.
MaxExtW == 9
\* Largest input extent (height) given to getTargetExtent.
MaxExtH == 5
\* Largest input extent (depth) given to getTargetExtent.
MaxExtD == 3
\* Largest maxExtent given to getTargetExtent.
MaxCap == 10
\* The operations that change the handles or the states, in one run.
MaxOps == 3

(***************************************************************************)
(* Enumerations of nvtt.h.                                                 *)
(***************************************************************************)
TextureType_2D == "TextureType_2D"
TextureType_Cube == "TextureType_Cube"
TextureType_3D == "TextureType_3D"
TextureTypes == {TextureType_2D, TextureType_Cube, TextureType_3D}

RoundMode_None == "RoundMode_None"
RoundMode_ToNextPowerOfTwo == "RoundMode_ToNextPowerOfTwo"
RoundMode_ToNearestPowerOfTwo == "RoundMode_ToNearestPowerOfTwo"
RoundMode_ToPreviousPowerOfTwo == "RoundMode_ToPreviousPowerOfTwo"
RoundModes == {RoundMode_None, RoundMode_ToNextPowerOfTwo,
               RoundMode_ToNearestPowerOfTwo, RoundMode_ToPreviousPowerOfTwo}

WrapMode_Clamp == "WrapMode_Clamp"
WrapMode_Repeat == "WrapMode_Repeat"
WrapMode_Mirror == "WrapMode_Mirror"
WrapModes == {WrapMode_Clamp, WrapMode_Repeat, WrapMode_Mirror}

AlphaMode_None == "AlphaMode_None"
AlphaMode_Transparency == "AlphaMode_Transparency"
AlphaModes == {AlphaMode_None, AlphaMode_Transparency}

Max2(a, b) == IF a >= b THEN a ELSE b
Min2(a, b) == IF a <= b THEN a ELSE b

(***************************************************************************)
(* Power-of-two helpers.                                                   *)
(***************************************************************************)
RECURSIVE PowerOfTwoFrom(_, _)
PowerOfTwoFrom(p, x) == IF p >= x THEN p ELSE PowerOfTwoFrom(2 * p, x)

\* nv::nextPowerOfTwo (nvcore): the smallest power of two >= x, for x >= 1.
nextPowerOfTwo(x) == PowerOfTwoFrom(1, x)

\* A faulty variant: the power of two below nextPowerOfTwo(v), wrong on powers of two.
previousPowerOfTwo_offByOne(v) == nextPowerOfTwo(v) \div 2

\* 1 -> 1, 2 -> 2, 3 -> 2, 4 -> 4, 5 -> 4, ...
previousPowerOfTwo(v) == nextPowerOfTwo(v + 1) \div 2

\* A faulty variant: a tie goes to the previous power of two.
nearestPowerOfTwo_strict(v) ==
    LET np2 == nextPowerOfTwo(v)
        pp2 == previousPowerOfTwo(v)
    IN  IF np2 - v < v - pp2 THEN np2 ELSE pp2

nearestPowerOfTwo(v) ==
    LET np2 == nextPowerOfTwo(v)
        pp2 == previousPowerOfTwo(v)
    IN  IF np2 - v <= v - pp2 THEN np2 ELSE pp2

(***************************************************************************)
(* nv::getTargetExtent, in the four stages of its body.  An extent is a    *)
(* record [w, h, d].                                                       *)
(***************************************************************************)
\* The cap the extents are scaled to: maxExtent rounded down to a power of
\* two when a rounding mode is given.
\* A faulty variant: the cap is never rounded down.
TargetCap_unrounded(maxExtent, roundMode) == maxExtent

TargetCap(maxExtent, roundMode) ==
    IF roundMode # RoundMode_None /\ maxExtent > 0
    THEN previousPowerOfTwo(maxExtent)
    ELSE maxExtent

\* A faulty variant: a scaled extent may reach 0.
ScaleExtent_unfloored(e, cap) ==
    LET m == Max2(Max2(e.w, e.h), e.d)
    IN  IF cap > 0 /\ m > cap
        THEN [w |-> (e.w * cap) \div m, h |-> (e.h * cap) \div m,
              d |-> (e.d * cap) \div m]
        ELSE e

\* Scale extents without changing aspect ratio.
ScaleExtent(e, cap) ==
    LET m == Max2(Max2(e.w, e.h), e.d)
    IN  IF cap > 0 /\ m > cap
        THEN [w |-> Max2((e.w * cap) \div m, 1),
              h |-> Max2((e.h * cap) \div m, 1),
              d |-> Max2((e.d * cap) \div m, 1)]
        ELSE e

\* 2D forces depth 1; Cube averages width and height and forces depth 1.
ForceType(e, textureType) ==
    IF textureType = TextureType_2D
    THEN [e EXCEPT !.d = 1]
    ELSE IF textureType = TextureType_Cube
         THEN [w |-> (e.w + e.h) \div 2, h |-> (e.w + e.h) \div 2, d |-> 1]
         ELSE e

\* Round to power of two.
RoundExtent(e, roundMode) ==
    IF roundMode = RoundMode_ToNextPowerOfTwo
    THEN [w |-> nextPowerOfTwo(e.w), h |-> nextPowerOfTwo(e.h),
          d |-> nextPowerOfTwo(e.d)]
    ELSE IF roundMode = RoundMode_ToNearestPowerOfTwo
    THEN [w |-> nearestPowerOfTwo(e.w), h |-> nearestPowerOfTwo(e.h),
          d |-> nearestPowerOfTwo(e.d)]
    ELSE IF roundMode = RoundMode_ToPreviousPowerOfTwo
    THEN [w |-> previousPowerOfTwo(e.w), h |-> previousPowerOfTwo(e.h),
          d |-> previousPowerOfTwo(e.d)]
    ELSE e

\* The extents before the final rounding.
UnroundedExtent(e, maxExtent, roundMode, textureType) ==
    ForceType(ScaleExtent(e, TargetCap(maxExtent, roundMode)), textureType)

getTargetExtent(e, maxExtent, roundMode, textureType) ==
    RoundExtent(UnroundedExtent(e, maxExtent, roundMode, textureType), roundMode)

(***************************************************************************)
(* State.                                                                  *)
(***************************************************************************)
VARIABLES
    m,      \* Surface::m of each handle: the id of its Private, 0 when the
            \* handle is not alive (not constructed yet, or destroyed).
    heap,   \* the Surface::Private objects, by id.
    last,   \* the last operation that changed the handles or the states.
    fault,  \* TRUE once a NULL FloatImage pointer has been dereferenced.
    ops,    \* how many operations have changed the handles or the states.
    ext,    \* one call of nv::getTargetExtent: its arguments and results.
    calc    \* one call of a function on values: its arguments, its local
            \* variables while it runs, and its result.

vars == <<m, heap, last, fault, ops, ext, calc>>

Handles == 1..NumHandles
\* Ids of Surface::Private objects.  Every live Private is held by a live
\* handle, so there are never more than NumHandles of them.
StateIds == 1..NumHandles
Channels == 0..3

(***************************************************************************)
(* nv::FloatImage (nvimage): a planar buffer, channel c of pixel (x,y,z)   *)
(* at px[c][(z*h + y)*w + x].  A NULL FloatImage pointer is NullImage.     *)
(***************************************************************************)
NullImage == [null |-> TRUE, w |-> 0, h |-> 0, d |-> 0, px |-> <<>>]

PixelCount(img) == img.w * img.h * img.d

PixelIndex(img, x, y, z) == (z * img.h + y) * img.w + x

\* FloatImage::pixel(c, x, y, z)
Pixel(img, c, x, y, z) == img.px[c][PixelIndex(img, x, y, z)]

\* A FloatImage of four channels and w x h x d pixels holding the floats px.
MakeImage(w, h, d, px) == [null |-> FALSE, w |-> w, h |-> h, d |-> d, px |-> px]

\* The buffer of n pixels with every float of channel c equal to color[c].
Uniform(n, color) == [c \in Channels |-> [i \in 0..(n - 1) |-> color[c]]]

\* FloatImage::allocate(4, w, h, d); FloatImage::clear()
ClearedImage(w, h, d) ==
    MakeImage(w, h, d, Uniform(w * h * d, [c \in Channels |-> 0]))

\* nv::sameLayout(const FloatImage *, const FloatImage *)
sameLayout(img0, img1) ==
    /\ ~img0.null
    /\ ~img1.null
    /\ img0.w = img1.w
    /\ img0.h = img1.h
    /\ img0.d = img1.d

(***************************************************************************)
(* Surface::Private (a nv::RefCounted): the shared state.                  *)
(***************************************************************************)
\* A slot of the heap that holds no Private (never allocated, or deleted).
FreeCell ==
    [alloc |-> FALSE, refCount |-> 0, image |-> NullImage,
     type |-> TextureType_2D, wrapMode |-> WrapMode_Mirror,
     alphaMode |-> AlphaMode_None, isNormalMap |-> FALSE]

\* Surface::Private::Private(): reference count 0, no image.
NewPrivate == [FreeCell EXCEPT !.alloc = TRUE]

\* Surface::Private::Private(const Private & p): reference count 0, the
\* metadata of p and a clone of its image.
ClonePrivate(p) == [p EXCEPT !.refCount = 0]

\* operator new: the free slot the allocation returns.
NewId(H) == CHOOSE id \in StateIds : ~H[id].alloc /\ \A j \in StateIds : (~H[j].alloc) => id <= j

HasFreeId(H) == \E id \in StateIds : ~H[id].alloc

\* RefCounted::addRef()
addRef(H, id) == [H EXCEPT ![id].refCount = @ + 1]

\* RefCounted::release(): decrement, and delete the object at zero.
release(H, id) ==
    IF H[id].refCount - 1 = 0
    THEN [H EXCEPT ![id] = FreeCell]
    ELSE [H EXCEPT ![id].refCount = @ - 1]

(***************************************************************************)
(* Surface::detach.  The result is the heap and the handles after it, and  *)
(* whether it cloned.                                                      *)
(***************************************************************************)
\* A faulty variant: a detach() that never clones.
detach_never(H, M, s) == [heap |-> H, m |-> M, cloned |-> FALSE]

detach(H, M, s) ==
    IF H[M[s]].refCount > 1
    THEN LET H1 == release(H, M[s])
             n  == NewId(H1)
             H2 == [H1 EXCEPT ![n] = ClonePrivate(H1[M[s]])]
         IN  [heap |-> addRef(H2, n), m |-> [M EXCEPT ![s] = n], cloned |-> TRUE]
    ELSE [heap |-> H, m |-> M, cloned |-> FALSE]

\* The record kept of an operation that changed the handles or the states:
\* op, the handle it was called on, whether its detach() cloned the state,
\* and the reference count the state it wrote had when it was written (0: it
\* wrote no state).
Done(op, s, cloned, wrc) == [op |-> op, h |-> s, cloned |-> cloned, wrc |-> wrc]

Alive(s) == m[s] # 0

\* The Private of a live handle.
State(s) == heap[m[s]]

(***************************************************************************)
(* Construction, copy, assignment, destruction.                            *)
(***************************************************************************)
\* Surface::Surface()
Surface(s) ==
    /\ ~Alive(s)
    /\ HasFreeId(heap)
    /\ LET n == NewId(heap)
       IN  /\ heap' = addRef([heap EXCEPT ![n] = NewPrivate], n)
           /\ m' = [m EXCEPT ![s] = n]
    /\ last' = Done("Surface", s, FALSE, 0)
    /\ ops < MaxOps
    /\ ops' = ops + 1
    /\ UNCHANGED <<fault, ext, calc>>

\* Surface::Surface(const Surface & tex)
SurfaceCopy(s, tex) ==
    /\ ~Alive(s)
    /\ Alive(tex)
    /\ m' = [m EXCEPT ![s] = m[tex]]
    /\ heap' = IF m[tex] # 0 THEN addRef(heap, m[tex]) ELSE heap
    /\ last' = Done("SurfaceCopy", s, FALSE, 0)
    /\ ops < MaxOps
    /\ ops' = ops + 1
    /\ UNCHANGED <<fault, ext, calc>>

\* Surface::~Surface()
SurfaceDestroy(s) ==
    /\ Alive(s)
    /\ heap' = IF m[s] # 0 THEN release(heap, m[s]) ELSE heap
    /\ m' = [m EXCEPT ![s] = 0]
    /\ last' = Done("SurfaceDestroy", s, FALSE, 0)
    /\ ops < MaxOps
    /\ ops' = ops + 1
    /\ UNCHANGED <<fault, ext, calc>>

\* A faulty variant: operator= that releases its own state before it adds the
\* reference of tex.
assign_releaseFirst(s, tex) ==
    /\ Alive(s)
    /\ Alive(tex)
    /\ LET H1 == IF m[s] # 0 THEN release(heap, m[s]) ELSE heap
       IN  heap' = IF m[tex] # 0 THEN addRef(H1, m[tex]) ELSE H1
    /\ m' = [m EXCEPT ![s] = m[tex]]
    /\ last' = Done("assign", s, FALSE, 0)
    /\ ops < MaxOps
    /\ ops' = ops + 1
    /\ UNCHANGED <<fault, ext, calc>>

\* Surface::operator=(const Surface & tex)
assign(s, tex) ==
    /\ Alive(s)
    /\ Alive(tex)
    /\ LET H1 == IF m[tex] # 0 THEN addRef(heap, m[tex]) ELSE heap
       IN  heap' = IF m[s] # 0 THEN release(H1, m[s]) ELSE H1
    /\ m' = [m EXCEPT ![s] = m[tex]]
    /\ last' = Done("assign", s, FALSE, 0)
    /\ ops < MaxOps
    /\ ops' = ops + 1
    /\ UNCHANGED <<fault, ext, calc>>

(***************************************************************************)
(* How an operation ends.                                                  *)
(***************************************************************************)
\* The operation called detach() (result D) and then stored p as the
\* Private of s.
Commit(op, s, D, p) ==
    /\ heap' = [D.heap EXCEPT ![D.m[s]] = p]
    /\ m' = D.m
    /\ last' = Done(op, s, D.cloned, D.heap[D.m[s]].refCount)
    /\ ops < MaxOps
    /\ ops' = ops + 1
    /\ UNCHANGED <<fault, ext, calc>>

\* The operation returned before detach(), or is const: nothing changed.
Return == UNCHANGED vars

(***************************************************************************)
(* Setters.                                                                *)
(***************************************************************************)
setWrapMode(s, wrapMode) ==
    /\ Alive(s)
    /\ IF State(s).wrapMode # wrapMode
       THEN LET D == detach(heap, m, s)
            IN  Commit("setWrapMode", s, D,
                       [D.heap[D.m[s]] EXCEPT !.wrapMode = wrapMode])
       ELSE Return

setAlphaMode(s, alphaMode) ==
    /\ Alive(s)
    /\ IF State(s).alphaMode # alphaMode
       THEN LET D == detach(heap, m, s)
            IN  Commit("setAlphaMode", s, D,
                       [D.heap[D.m[s]] EXCEPT !.alphaMode = alphaMode])
       ELSE Return

setNormalMap(s, isNormalMap) ==
    /\ Alive(s)
    /\ IF State(s).isNormalMap # isNormalMap
       THEN LET D == detach(heap, m, s)
            IN  Commit("setNormalMap", s, D,
                       [D.heap[D.m[s]] EXCEPT !.isNormalMap = isNormalMap])
       ELSE Return

(***************************************************************************)
(* Accessors: the value each returns, and the call.                        *)
(***************************************************************************)
isNullOf(s) == State(s).image.null

widthOf(s) == IF ~State(s).image.null THEN State(s).image.w ELSE 0

heightOf(s) == IF ~State(s).image.null THEN State(s).image.h ELSE 0

depthOf(s) == IF ~State(s).image.null THEN State(s).image.d ELSE 0

\* A faulty variant: an accessor that calls detach().
width_detaching(s) ==
    /\ Alive(s)
    /\ LET D == detach(heap, m, s)
       IN  Commit("width", s, D, D.heap[D.m[s]])

isNull(s) == Alive(s) /\ Return

width(s) == Alive(s) /\ Return

height(s) == Alive(s) /\ Return

depth(s) == Alive(s) /\ Return

wrapMode(s) == Alive(s) /\ Return

alphaMode(s) == Alive(s) /\ Return

isNormalMap(s) == Alive(s) /\ Return

type(s) == Alive(s) /\ Return

\* Surface::data(): channel 0 of the image, with no check of m->image.  On a
\* null surface the call goes through a NULL pointer: undefined behaviour,
\* which fault records; what the program does after it is not modelled.
data(s) ==
    /\ Alive(s)
    /\ fault' = (fault \/ State(s).image.null)
    /\ UNCHANGED <<m, heap, last, ops, ext, calc>>

(***************************************************************************)
(* Surface::setImage(format, w, h, d, data): interleaved input.  data is   *)
(* the caller's array, four values per pixel.  The bytes of the 8-bit      *)
(* format used here are 0 and 255, which float(x) / 255.0f maps to 0 and 1 *)
(* exactly.                                                                *)
(***************************************************************************)
InputFormat_BGRA_8UB == "InputFormat_BGRA_8UB"
InputFormat_RGBA_32F == "InputFormat_RGBA_32F"

\* Color32 is laid out b, g, r, a: the offset of channel c in a Color32.
Color32Offset(c) == IF c = 0 THEN 2 ELSE IF c = 2 THEN 0 ELSE c

SetImagePixels(format, n, src) ==
    IF format = InputFormat_BGRA_8UB
    THEN [c \in Channels |-> [i \in 0..(n - 1) |-> src[4 * i + Color32Offset(c)] \div 255]]
    ELSE [c \in Channels |-> [i \in 0..(n - 1) |-> src[4 * i + c]]]

TypeOfDepth(d) == IF d = 1 THEN TextureType_2D ELSE TextureType_3D

setImage(s, format, w, h, d, src) ==
    /\ Alive(s)
    /\ LET D == detach(heap, m, s)
           p == D.heap[D.m[s]]
       IN  Commit("setImage", s, D,
                  [p EXCEPT !.image = MakeImage(w, h, d, SetImagePixels(format, w * h * d, src)),
                            !.type = TypeOfDepth(d)])

(***************************************************************************)
(* Surface::resize(w, h, d, filter, filterWidth, params).  The resampled   *)
(* image comes from FloatImage::resize, which is not part of this file:    *)
(* it has w x h x d pixels, and v stands for the values the filter gives.  *)
(***************************************************************************)
Resampled(w, h, d, v) == MakeImage(w, h, d, Uniform(w * h * d, [c \in Channels |-> v]))

\* A faulty variant: resize without the same-shape test.
resize_always(s, w, h, d, v) ==
    /\ Alive(s)
    /\ IF isNullOf(s)
       THEN Return
       ELSE LET D == detach(heap, m, s)
            IN  Commit("resize", s, D,
                       [D.heap[D.m[s]] EXCEPT !.image = Resampled(w, h, d, v)])

resize(s, w, h, d, v) ==
    /\ Alive(s)
    /\ IF isNullOf(s) \/ (w = widthOf(s) /\ h = heightOf(s) /\ d = depthOf(s))
       THEN Return
       ELSE LET D == detach(heap, m, s)
            IN  Commit("resize", s, D,
                       [D.heap[D.m[s]] EXCEPT !.image = Resampled(w, h, d, v)])

\* Surface::resize(maxExtent, roundMode, filter, filterWidth, params)
resizeMax(s, maxExtent, roundMode, v) ==
    /\ Alive(s)
    /\ IF isNullOf(s)
       THEN Return
       ELSE LET e == getTargetExtent([w |-> widthOf(s), h |-> heightOf(s), d |-> depthOf(s)],
                                     maxExtent, roundMode, State(s).type)
            IN  resize(s, e.w, e.h, e.d, v)

(***************************************************************************)
(* Surface::buildNextMipmap(filter, filterWidth, params).  The smaller     *)
(* image comes from FloatImage::downSample or fastDownSample: every axis   *)
(* halved, at least 1.                                                     *)
(***************************************************************************)
HalfExtent(x) == Max2(1, x \div 2)

buildNextMipmap(s, v) ==
    /\ Alive(s)
    /\ IF isNullOf(s) \/ (widthOf(s) = 1 /\ heightOf(s) = 1 /\ depthOf(s) = 1)
       THEN Return
       ELSE LET D == detach(heap, m, s)
                p == D.heap[D.m[s]]
            IN  Commit("buildNextMipmap", s, D,
                       [p EXCEPT !.image = Resampled(HalfExtent(p.image.w), HalfExtent(p.image.h),
                                                     HalfExtent(p.image.d), v)])

(***************************************************************************)
(* Surface::canvasSize(w, h, d)                                            *)
(***************************************************************************)
\* A faulty variant: the copy goes by linear index, not by (x, y, z).
CanvasCopy_linear(img, w, h, d) ==
    LET new_img == ClearedImage(w, h, d)
    IN  [new_img EXCEPT !.px =
            [c \in Channels |-> [i \in 0..(w * h * d - 1) |->
                IF i < PixelCount(img) THEN img.px[c][i] ELSE new_img.px[c][i]]]]

\* The loop that copies the overlapping region into the cleared image.
CanvasCopy(img, w, h, d) ==
    LET new_img == ClearedImage(w, h, d)
        cw == Min2(w, img.w)
        ch == Min2(h, img.h)
        cd == Min2(d, img.d)
        Inside(i) ==
            /\ i % w < cw
            /\ (i \div w) % h < ch
            /\ i \div (w * h) < cd
    IN  [new_img EXCEPT !.px =
            [c \in Channels |-> [i \in 0..(w * h * d - 1) |->
                IF Inside(i)
                THEN Pixel(img, c, i % w, (i \div w) % h, i \div (w * h))
                ELSE new_img.px[c][i]]]]

canvasSize(s, w, h, d) ==
    /\ Alive(s)
    /\ IF isNullOf(s) \/ (w = widthOf(s) /\ h = heightOf(s) /\ d = depthOf(s))
       THEN Return
       ELSE LET D == detach(heap, m, s)
                p == D.heap[D.m[s]]
            IN  Commit("canvasSize", s, D,
                       [p EXCEPT !.image = CanvasCopy(p.image, w, h, d),
                                 !.type = TypeOfDepth(Min2(d, p.image.d))])

(***************************************************************************)
(* Surface::fill(red, green, blue, alpha); color is <<red, ..., alpha>>    *)
(* indexed by channel.                                                     *)
(***************************************************************************)
fill(s, color) ==
    /\ Alive(s)
    /\ IF isNullOf(s)
       THEN Return
       ELSE LET D == detach(heap, m, s)
                p == D.heap[D.m[s]]
            IN  Commit("fill", s, D,
                       [p EXCEPT !.image.px = Uniform(PixelCount(p.image), color)])

(***************************************************************************)
(* Surface::copyChannel(srcImage, srcChannel, dstChannel) and              *)
(* Surface::addChannel(srcImage, srcChannel, dstChannel, scale).  The      *)
(* source image pointer is read before detach().                           *)
(***************************************************************************)
ChannelInRange(c) == ~(c < 0 \/ c > 3)

\* A faulty variant: copyChannel that writes without detach().
copyChannel_noDetach(s, srcImage, srcChannel, dstChannel) ==
    /\ Alive(s)
    /\ Alive(srcImage)
    /\ IF ~ChannelInRange(srcChannel) \/ ~ChannelInRange(dstChannel)
       THEN Return
       ELSE LET src == State(srcImage).image
            IN  IF ~sameLayout(State(s).image, src)
                THEN Return
                ELSE LET D == detach_never(heap, m, s)
                         p == D.heap[D.m[s]]
                     IN  Commit("copyChannel", s, D,
                                [p EXCEPT !.image.px[dstChannel] = src.px[srcChannel]])

copyChannel(s, srcImage, srcChannel, dstChannel) ==
    /\ Alive(s)
    /\ Alive(srcImage)
    /\ IF ~ChannelInRange(srcChannel) \/ ~ChannelInRange(dstChannel)
       THEN Return
       ELSE LET src == State(srcImage).image
            IN  IF ~sameLayout(State(s).image, src)
                THEN Return
                ELSE LET D == detach(heap, m, s)
                         p == D.heap[D.m[s]]
                     IN  Commit("copyChannel", s, D,
                                [p EXCEPT !.image.px[dstChannel] = src.px[srcChannel]])

\* A faulty variant: d[i] = s[i] * scale in place of d[i] += s[i] * scale.
addChannel_assign(s, srcImage, srcChannel, dstChannel, scale) ==
    /\ Alive(s)
    /\ Alive(srcImage)
    /\ IF ~ChannelInRange(srcChannel) \/ ~ChannelInRange(dstChannel)
       THEN Return
       ELSE LET src == State(srcImage).image
            IN  IF ~sameLayout(State(s).image, src)
                THEN Return
                ELSE LET D == detach(heap, m, s)
                         p == D.heap[D.m[s]]
                     IN  Commit("addChannel", s, D,
                                [p EXCEPT !.image.px[dstChannel] =
                                    [i \in 0..(PixelCount(src) - 1) |->
                                        src.px[srcChannel][i] * scale]])

addChannel(s, srcImage, srcChannel, dstChannel, scale) ==
    /\ Alive(s)
    /\ Alive(srcImage)
    /\ IF ~ChannelInRange(srcChannel) \/ ~ChannelInRange(dstChannel)
       THEN Return
       ELSE LET src == State(srcImage).image
            IN  IF ~sameLayout(State(s).image, src)
                THEN Return
                ELSE LET D == detach(heap, m, s)
                         p == D.heap[D.m[s]]
                     IN  Commit("addChannel", s, D,
                                [p EXCEPT !.image.px[dstChannel] =
                                    [i \in 0..(PixelCount(src) - 1) |->
                                        p.image.px[dstChannel][i] + src.px[srcChannel][i] * scale]])

(***************************************************************************)
(* Surface::setImage2D(format, decoder, w, h, data).  The block decoders   *)
(* are not part of this file: src[ptr] is the ColorBlock that the block at *)
(* byte ptr of the input decodes to, sixteen colors <<r, g, b, a>> of      *)
(* bytes 0 or 255.                                                         *)
(***************************************************************************)
Format_RGBA == "Format_RGBA"
Format_BC1 == "Format_BC1"
Format_BC2 == "Format_BC2"
Format_BC3 == "Format_BC3"
Format_BC4 == "Format_BC4"
Format_BC5 == "Format_BC5"
Format_BC6 == "Format_BC6"
Format_BC7 == "Format_BC7"

\* blockSize(Format): BC1 is DXT1, BC2 is DXT3, BC3 is DXT5.
blockSize(format) ==
    IF format = Format_BC1 THEN 8
    ELSE IF format = Format_BC2 THEN 16
    ELSE IF format = Format_BC3 THEN 16
    ELSE IF format = Format_BC4 THEN 8
    ELSE IF format = Format_BC5 THEN 16
    ELSE IF format = Format_BC6 THEN 16
    ELSE IF format = Format_BC7 THEN 16
    ELSE 0

\* A faulty variant: the loops without the test that clips partial blocks.
ScatterWrites_unclipped(format, w, h) ==
    LET bw == (w + 3) \div 4
        bh == (h + 3) \div 4
        bs == blockSize(format)
    IN  {[ptr |-> (y * bw + x) * bs, xx |-> xx, yy |-> yy, px |-> x * 4 + xx, py |-> y * 4 + yy] :
            x \in 0..(bw - 1), y \in 0..(bh - 1), xx \in 0..3, yy \in 0..3}

\* The writes the loops over the blocks make: block (x, y) is read at ptr,
\* which has advanced by bs for every block before it, and its texel
\* (xx, yy) goes to pixel (x*4 + xx, y*4 + yy) when that lies inside w x h.
ScatterWrites(format, w, h) ==
    LET bw == (w + 3) \div 4
        bh == (h + 3) \div 4
        bs == blockSize(format)
    IN  {wr \in {[ptr |-> (y * bw + x) * bs, xx |-> xx, yy |-> yy, px |-> x * 4 + xx, py |-> y * 4 + yy] :
                    x \in 0..(bw - 1), y \in 0..(bh - 1), xx \in 0..3, yy \in 0..3} :
            wr.px < w /\ wr.py < h}

\* The image the writes leave.  src gives, for the byte offset of a block,
\* the ColorBlock its decoder returns: 16 colors <<r, g, b, a>>, texel
\* (xx, yy) at 4*yy + xx.  The components used are 0 and 255, which
\* float(c) * 1.0f / 255.0f maps to 0 and 1 exactly.
Scatter(format, w, h, src) ==
    LET writes == ScatterWrites(format, w, h)
    IN  [c \in Channels |-> [i \in 0..(w * h - 1) |->
            LET wr == CHOOSE r \in writes : r.px = i % w /\ r.py = i \div w
            IN  src[wr.ptr][4 * wr.yy + wr.xx][c + 1] \div 255]]

\* A faulty variant: setImage2D without the test of the format.
setImage2D_anyFormat(s, format, w, h, src) ==
    /\ Alive(s)
    /\ LET D == detach(heap, m, s)
           p == D.heap[D.m[s]]
       IN  Commit("setImage2D", s, D,
                  [p EXCEPT !.image = MakeImage(w, h, 1, Scatter(format, w, h, src)),
                            !.type = TextureType_2D])

setImage2D(s, format, w, h, src) ==
    /\ Alive(s)
    /\ IF format # Format_BC1 /\ format # Format_BC2 /\ format # Format_BC3
          /\ format # Format_BC4 /\ format # Format_BC5
       THEN Return
       ELSE LET D == detach(heap, m, s)
                p == D.heap[D.m[s]]
            IN  Commit("setImage2D", s, D,
                       [p EXCEPT !.image = MakeImage(w, h, 1, Scatter(format, w, h, src)),
                                 !.type = TextureType_2D])

(***************************************************************************)
(* nvtt::diff(reference, image, scale): r is the handle that receives the  *)
(* returned Surface.                                                       *)
(***************************************************************************)
\* A faulty variant: the alpha of the result is taken from image.
DiffPixels_imageAlpha(ref, img, transparency, scale) ==
    [c \in Channels |-> [i \in 0..(PixelCount(img) - 1) |->
        IF c = 3
        THEN img.px[3][i]
        ELSE LET delta == img.px[c][i] - ref.px[c][i]
             IN  (IF transparency THEN delta * ref.px[3][i] ELSE delta) * scale]]

DiffPixels(ref, img, transparency, scale) ==
    [c \in Channels |-> [i \in 0..(PixelCount(img) - 1) |->
        IF c = 3
        THEN ref.px[3][i]
        ELSE LET delta == img.px[c][i] - ref.px[c][i]
             IN  (IF transparency THEN delta * ref.px[3][i] ELSE delta) * scale]]

\* The image of the Surface diff returns, from the Privates of its arguments.
diffImage(reference, image, scale) ==
    IF ~sameLayout(image.image, reference.image)
    THEN NullImage
    ELSE MakeImage(image.image.w, image.image.h, image.image.d,
                   DiffPixels(reference.image, image.image,
                              reference.alphaMode = AlphaMode_Transparency, scale))

diff(r, reference, image, scale) ==
    /\ ~Alive(r)
    /\ Alive(reference)
    /\ Alive(image)
    /\ HasFreeId(heap)
    /\ LET ref == State(reference).image
           img == State(image).image
           n == NewId(heap)
           H1 == addRef([heap EXCEPT ![n] = NewPrivate], n)
       IN  /\ heap' = [H1 EXCEPT ![n].image = diffImage(State(reference), State(image), scale)]
           /\ m' = [m EXCEPT ![r] = n]
           /\ last' = Done("diff", r, FALSE, IF sameLayout(img, ref) THEN H1[n].refCount ELSE 0)
    /\ ops < MaxOps
    /\ ops' = ops + 1
    /\ UNCHANGED <<fault, ext, calc>>

(***************************************************************************)
(* The arguments the operations are called with.                           *)
(***************************************************************************)
\* The shapes of the images of the handle specification: single rows of at
\* most MaxPixels pixels.
Shapes == {[w |-> n, h |-> 1, d |-> 1] : n \in 1..MaxPixels}

\* The caller's array for setImage: 4 * n values.
InputData(format, n) ==
    IF format = InputFormat_BGRA_8UB
    THEN {[i \in 0..(4 * n - 1) |-> 255 * ((i + i \div 4) % 2)]}
    ELSE {[i \in 0..(4 * n - 1) |-> 1 + (i % 3)]}

\* The color of texel j of the k-th block of the caller's array, in four
\* arrays: 1 holds blocks of one solid color.
BlockPatterns == 0..3
TexelColor(pattern, k, j) ==
    IF pattern = 0 THEN <<255 * ((j + k) % 2), 255, 0, 255 * (j % 2)>>
    ELSE IF pattern = 1 THEN <<255, 0, 0, 255>>
    ELSE IF pattern = 2 THEN <<255 * (k % 2), 255 * ((k \div 2) % 2), 255 * ((j \div 4) % 2), 255 * (j % 2)>>
    ELSE <<255 * ((j \div 2) % 2), 255 * ((j \div 8) % 2), 255 * ((k + 1) % 2), 255>>

\* The caller's array for setImage2D, as what its blocks decode to: block k
\* starts at byte k * blockSize(format).
DecodedBlocks(format, w, h, pattern) ==
    LET count == ((w + 3) \div 4) * ((h + 3) \div 4)
        bs == blockSize(format)
    IN  [ptr \in {k * bs : k \in 0..(count - 1)} |->
            [j \in 0..15 |-> TexelColor(pattern, IF bs = 0 THEN 0 ELSE ptr \div bs, j)]]

InputBlocks(format, w, h) == {DecodedBlocks(format, w, h, 0)}

FillColors == {[c \in Channels |-> 5 + c]}
FilterValues == {4}
\* <<srcChannel, dstChannel>> of copyChannel and addChannel.
ChannelArgs == {<<0, 1>>, <<4, 0>>}
ScaleArgs == {1}
\* addChannel is called while the sums stay below this value.
MaxValue == 12

\* A call of getTargetExtent that has not been made: its arguments.
ExtentArgs(e, maxExtent, roundMode, textureType) ==
    [e |-> e, maxExtent |-> maxExtent, roundMode |-> roundMode, textureType |-> textureType,
     called |-> FALSE, cap |-> maxExtent, pre |-> e, out |-> e]

ExtIdle == ExtentArgs([w |-> 1, h |-> 1, d |-> 1], 0, RoundMode_None, TextureType_2D)

\* No function on values is being called.
CalcIdle == [fn |-> "none"]

(***************************************************************************)
(* The Surface handles of a program: any sequence of the operations.       *)
(***************************************************************************)
Init ==
    /\ m = [s \in Handles |-> IF s = 1 THEN 1 ELSE 0]
    /\ heap = [id \in StateIds |-> IF id = 1 THEN [NewPrivate EXCEPT !.refCount = 1] ELSE FreeCell]
    /\ last = Done("Surface", 1, FALSE, 0)
    /\ fault = FALSE
    /\ ops = 0
    /\ ext = ExtIdle
    /\ calc = CalcIdle

AddChannelInRange(s, srcImage, srcChannel, dstChannel, scale) ==
    IF ~ChannelInRange(srcChannel) \/ ~ChannelInRange(dstChannel)
    THEN TRUE
    ELSE IF ~sameLayout(State(s).image, State(srcImage).image)
    THEN TRUE
    ELSE \A i \in 0..(PixelCount(State(s).image) - 1) :
            State(s).image.px[dstChannel][i] + State(srcImage).image.px[srcChannel][i] * scale <= MaxValue

\* The program runs until it dereferences a NULL pointer.
Running == ~fault

Next ==
    \/ \E s \in Handles : Running /\ Surface(s)
    \/ \E s \in Handles, tex \in Handles : Running /\ SurfaceCopy(s, tex)
    \/ \E s \in Handles : Running /\ SurfaceDestroy(s)
    \/ \E s \in Handles, tex \in Handles : Running /\ assign(s, tex)
    \/ \E s \in Handles, wm \in {WrapMode_Clamp, WrapMode_Mirror} : Running /\ setWrapMode(s, wm)
    \/ \E s \in Handles, am \in AlphaModes : Running /\ setAlphaMode(s, am)
    \/ \E s \in Handles, nm \in BOOLEAN : Running /\ setNormalMap(s, nm)
    \/ \E s \in Handles : Running /\ isNull(s)
    \/ \E s \in Handles : Running /\ width(s)
    \/ \E s \in Handles : Running /\ height(s)
    \/ \E s \in Handles : Running /\ depth(s)
    \/ \E s \in Handles : Running /\ wrapMode(s)
    \/ \E s \in Handles : Running /\ alphaMode(s)
    \/ \E s \in Handles : Running /\ isNormalMap(s)
    \/ \E s \in Handles : Running /\ type(s)
    \/ \E s \in Handles : Running /\ data(s)
    \/ \E s \in Handles, sh \in Shapes :
          \E src \in InputData(InputFormat_RGBA_32F, sh.w * sh.h * sh.d) :
              Running /\ setImage(s, InputFormat_RGBA_32F, sh.w, sh.h, sh.d, src)
    \/ \E s \in Handles, f \in {Format_BC1, Format_BC7}, sh \in Shapes :
          \E src \in InputBlocks(f, sh.w, sh.h) :
              Running /\ sh.d = 1 /\ setImage2D(s, f, sh.w, sh.h, src)
    \/ \E s \in Handles, sh \in Shapes, v \in FilterValues :
          Running /\ resize(s, sh.w, sh.h, sh.d, v)
    \/ \E s \in Handles, cap \in {1}, rm \in {RoundMode_None}, v \in FilterValues :
          Running /\ resizeMax(s, cap, rm, v)
    \/ \E s \in Handles, v \in FilterValues : Running /\ buildNextMipmap(s, v)
    \/ \E s \in Handles, sh \in Shapes : Running /\ canvasSize(s, sh.w, sh.h, sh.d)
    \/ \E s \in Handles, color \in FillColors : Running /\ fill(s, color)
    \/ \E s \in Handles, tex \in Handles, ch \in ChannelArgs :
          Running /\ copyChannel(s, tex, ch[1], ch[2])
    \/ \E s \in Handles, tex \in Handles, ch \in ChannelArgs, k \in ScaleArgs :
          /\ Running /\ Alive(s) /\ Alive(tex)
          /\ AddChannelInRange(s, tex, ch[1], ch[2], k)
          /\ addChannel(s, tex, ch[1], ch[2], k)
    \/ \E s \in Handles, ref \in Handles, img \in Handles, k \in ScaleArgs :
          Running /\ diff(s, ref, img, k)

Spec == Init /\ [][Next]_vars

(***************************************************************************)
(* One Surface and its shape: the operations that allocate, resample or    *)
(* crop the image, on images of up to MaxDim pixels along each axis.       *)
(***************************************************************************)
Extents == 1..MaxDim

NextShape ==
    \/ \E f \in {InputFormat_BGRA_8UB, InputFormat_RGBA_32F}, w \in Extents, h \in Extents, d \in Extents :
          \E src \in InputData(f, w * h * d) : setImage(1, f, w, h, d, src)
    \/ \E f \in {Format_BC1, Format_BC5, Format_RGBA}, w \in Extents, h \in Extents :
          \E src \in InputBlocks(f, w, h) : setImage2D(1, f, w, h, src)
    \/ \E w \in Extents, h \in Extents, d \in Extents, v \in FilterValues : resize(1, w, h, d, v)
    \/ \E cap \in 0..MaxDim, rm \in RoundModes, v \in FilterValues : resizeMax(1, cap, rm, v)
    \/ \E v \in FilterValues : buildNextMipmap(1, v)
    \/ \E w \in Extents, h \in Extents, d \in Extents : canvasSize(1, w, h, d)
    \/ \E color \in FillColors : fill(1, color)

SpecShape == Init /\ [][NextShape]_vars

(***************************************************************************)
(* One call of nv::getTargetExtent, on any arguments within the bounds.    *)
(***************************************************************************)
InitExtent ==
    /\ m = [s \in Handles |-> 0]
    /\ heap = [id \in StateIds |-> FreeCell]
    /\ last = Done("none", 0, FALSE, 0)
    /\ fault = FALSE
    /\ ops = 0
    /\ \E w \in 1..MaxExtW, h \in 1..MaxExtH, d \in 1..MaxExtD, maxExtent \in -1..MaxCap,
          roundMode \in RoundModes, textureType \in TextureTypes :
          ext = ExtentArgs([w |-> w, h |-> h, d |-> d], maxExtent, roundMode, textureType)
    /\ calc = CalcIdle

getTargetExtentCall ==
    /\ ~ext.called
    /\ ext' = [ext EXCEPT
                 !.called = TRUE,
                 !.cap = TargetCap(ext.maxExtent, ext.roundMode),
                 !.pre = UnroundedExtent(ext.e, ext.maxExtent, ext.roundMode, ext.textureType),
                 !.out = getTargetExtent(ext.e, ext.maxExtent, ext.roundMode, ext.textureType)]
    /\ UNCHANGED <<m, heap, last, fault, ops, calc>>

NextExtent == getTargetExtentCall

SpecExtent == InitExtent /\ [][NextExtent]_vars

(***************************************************************************)
(* Properties of the handles (Spec).                                       *)
(***************************************************************************)
\* What a handle shows of its state: the image, the type and the metadata,
\* everything but the number of handles that share it.
Observed(H, M, b) == [H[M[b]] EXCEPT !.refCount = 0]

\* C1: copy-on-write independence.  An operation called on one handle never
\* changes the shape, the metadata or any pixel observed through another
\* live handle, whether or not the two shared a state before it.
CopyOnWriteIndependence ==
    [][\A b \in Handles :
          (Alive(b) /\ b # last'.h) =>
              (m'[b] # 0 /\ Observed(heap', m', b) = Observed(heap, m, b))]_vars

\* C1, its case: an operation on a handle that shared its state has cloned
\* it, and the other handle still shows a different, non-null image.
CopyOnWriteDiverged ==
    /\ last.cloned
    /\ \E b \in Handles \ {last.h} :
          /\ Alive(b)
          /\ ~State(b).image.null
          /\ State(b).image # State(last.h).image

\* C2: when detach() has returned the state of the handle has reference
\* count 1, and a state is only written while its reference count is 1
\* (last.wrc is the count the written state had; 0 when nothing was written).
WritesAreUnshared ==
    /\ last.wrc \in {0, 1}
    /\ last.wrc = 1 => (Alive(last.h) /\ State(last.h).refCount = 1)

\* C2, its case: copyChannel was called on a handle that shared its state,
\* detach() cloned it, and the write went to a state of count 1.
CopyChannelWroteClone ==
    /\ last.op = "copyChannel"
    /\ last.cloned
    /\ last.wrc = 1

\* C3: the reference count of every live state is the number of handles
\* that point to it, a state is freed exactly when that number is zero, and
\* no handle points to a freed state.
RefCountLifecycle ==
    \A id \in StateIds :
        LET holders == {s \in Handles : m[s] = id}
        IN  IF heap[id].alloc
            THEN heap[id].refCount = Cardinality(holders) /\ holders # {}
            ELSE holders = {} /\ heap[id] = FreeCell

\* C3, its case: after an assignment the state has one holder, which is so
\* only after a self-assignment a = a of a sole holder (any other assignment
\* leaves two holders), while the other state has been freed or never made.
SelfAssignedSoleHolder ==
    /\ last.op = "assign"
    /\ Alive(last.h)
    /\ State(last.h).refCount = 1

\* C4: the accessors width, height, depth, isNull, wrapMode, alphaMode,
\* isNormalMap and type leave every state, every reference count and every
\* handle's binding as they were.
AccessorsChangeNothing ==
    [][(\E s \in Handles :
           \/ isNull(s) \/ width(s) \/ height(s) \/ depth(s)
           \/ wrapMode(s) \/ alphaMode(s) \/ isNormalMap(s) \/ type(s))
       => UNCHANGED <<m, heap>>]_vars

\* C4, its case: a null surface shared by two handles, on which the
\* accessors are called.
SharedNullSurface ==
    \E s \in Handles : Alive(s) /\ isNullOf(s) /\ State(s).refCount > 1

\* C5: resize and canvasSize called with the current width, height and
\* depth change no pixel, no metadata, no shape, no reference count and no
\* binding: a shared state stays shared.
SameShapeIsNoOp ==
    [][\A s \in Handles, v \in FilterValues :
          IF Alive(s)
          THEN IF ~isNullOf(s)
               THEN (\/ resize(s, widthOf(s), heightOf(s), depthOf(s), v)
                     \/ canvasSize(s, widthOf(s), heightOf(s), depthOf(s)))
                    => UNCHANGED <<m, heap>>
               ELSE TRUE
          ELSE TRUE]_vars

\* C5, its case: a non-null surface that has just been copied, so that the
\* same-shape call is made on a shared state.
SharedImageAfterCopy ==
    /\ last.op = "SurfaceCopy"
    /\ ~isNullOf(last.h)
    /\ State(last.h).refCount > 1

\* C7: a surface has no buffer exactly when width, height and depth all
\* report 0, and no operation called on a null surface dereferences the
\* buffer pointer.
NullSurfaceBehaviour ==
    /\ ~fault
    /\ \A s \in Handles :
          Alive(s) => (State(s).image.null <=> (widthOf(s) = 0 /\ heightOf(s) = 0 /\ depthOf(s) = 0))

(***************************************************************************)
(* Properties of the shape (SpecShape).                                    *)
(***************************************************************************)
\* C6: after any sequence of shape-changing operations the type of a
\* non-null surface is 3D exactly when its depth is above 1, and 2D exactly
\* when its depth is 1.
TypeFollowsDepth ==
    \A s \in Handles :
        (Alive(s) /\ ~isNullOf(s)) =>
            /\ State(s).type = TextureType_3D <=> depthOf(s) > 1
            /\ State(s).type = TextureType_2D <=> depthOf(s) = 1

\* C8: canvasSize to a different shape gives an image of exactly w x h x d
\* pixels in which every pixel inside the old extents holds the old four
\* channels of the same (x, y, z), and every other pixel is zero.
CanvasSizeCopiesOverlap ==
    [][(ops' # ops /\ last'.op = "canvasSize") =>
          LET old == heap[m[last'.h]].image
              new == heap'[m'[last'.h]].image
          IN  /\ ~new.null
              /\ \E w \in Extents, h \in Extents, d \in Extents :
                    /\ new.w = w /\ new.h = h /\ new.d = d
                    /\ <<w, h, d>> # <<old.w, old.h, old.d>>
                    /\ \A c \in Channels : DOMAIN new.px[c] = 0..(w * h * d - 1)
              /\ \A c \in Channels, x \in 0..(new.w - 1), y \in 0..(new.h - 1), z \in 0..(new.d - 1) :
                    new.px[c][(z * new.h + y) * new.w + x] =
                        IF x < old.w /\ y < old.h /\ z < old.d
                        THEN old.px[c][(z * old.h + y) * old.w + x]
                        ELSE 0]_vars

\* C8, its case: canvasSize has grown one axis and cut another: the image
\* holds copied pixels and zero padding.
CanvasSizePadded ==
    /\ last.op = "canvasSize"
    /\ LET img == State(last.h).image
       IN  /\ img.w = 1 /\ img.h = 2
           /\ \E i \in DOMAIN img.px[0] : img.px[0][i] = 0
           /\ \E i \in DOMAIN img.px[0] : img.px[0][i] > 1

(***************************************************************************)
(* Properties of getTargetExtent (SpecExtent).                             *)
(***************************************************************************)
PowersOfTwo == {2 ^ k : k \in 0..6}

\* p is the largest power of two <= v.
IsPreviousPowerOfTwo(v, p) == p \in PowersOfTwo /\ p <= v /\ v < 2 * p

\* p is the smallest power of two >= v.
IsNextPowerOfTwo(v, p) == p \in PowersOfTwo /\ v <= p /\ (p = 1 \/ p < 2 * v)

\* r is the one of the two that is closer to v, the next one on a tie.
IsNearestPowerOfTwo(v, r) ==
    \E lo \in PowersOfTwo, hi \in PowersOfTwo :
        /\ IsPreviousPowerOfTwo(v, lo)
        /\ IsNextPowerOfTwo(v, hi)
        /\ r = IF hi - v <= v - lo THEN hi ELSE lo

\* C9: for positive extents and a cap maxExtent > 0, whatever the rounding
\* mode and the texture type, the rounded cap is at most maxExtent and no
\* returned dimension exceeds maxExtent.
TargetExtentWithinCap ==
    (ext.called /\ ext.maxExtent > 0) =>
        /\ ext.cap <= ext.maxExtent
        /\ ext.out.w <= ext.maxExtent
        /\ ext.out.h <= ext.maxExtent
        /\ ext.out.d <= ext.maxExtent

\* C9, its case: the cap was rounded down, the extents were scaled to it and
\* rounding up to the next power of two left the width exactly at the cap.
ScaledAndRoundedToCap ==
    /\ ext.called
    /\ ext.roundMode = RoundMode_ToNextPowerOfTwo
    /\ 0 < ext.cap /\ ext.cap < ext.maxExtent
    /\ ext.e.w > ext.maxExtent
    /\ ext.pre.w < ext.cap
    /\ ext.out.w = ext.cap

\* C10: previousPowerOfTwo(v) is the largest power of two <= v, and
\* nearestPowerOfTwo(v) is the closer of the next and the previous power of
\* two, the next one when they are equally close; getTargetExtent applies
\* them to each axis.
PowerOfTwoRounding ==
    /\ <<previousPowerOfTwo(1), previousPowerOfTwo(2), previousPowerOfTwo(3),
         previousPowerOfTwo(4), previousPowerOfTwo(5)>> = <<1, 2, 2, 4, 4>>
    /\ ext.called =>
          /\ (ext.roundMode # RoundMode_None /\ ext.maxExtent > 0) =>
                IsPreviousPowerOfTwo(ext.maxExtent, ext.cap)
          /\ ext.roundMode = RoundMode_ToPreviousPowerOfTwo =>
                /\ IsPreviousPowerOfTwo(ext.pre.w, ext.out.w)
                /\ IsPreviousPowerOfTwo(ext.pre.h, ext.out.h)
                /\ IsPreviousPowerOfTwo(ext.pre.d, ext.out.d)
          /\ ext.roundMode = RoundMode_ToNearestPowerOfTwo =>
                /\ IsNearestPowerOfTwo(ext.pre.w, ext.out.w)
                /\ IsNearestPowerOfTwo(ext.pre.h, ext.out.h)
                /\ IsNearestPowerOfTwo(ext.pre.d, ext.out.d)

\* C10, its case: rounding to the nearest power of two took a width of 3,
\* as far from 2 as from 4, to 4, and a height of 5 to 4.
NearestTieWentUp ==
    /\ ext.called
    /\ ext.roundMode = RoundMode_ToNearestPowerOfTwo
    /\ ext.pre.w = 3 /\ ext.out.w = 4
    /\ ext.pre.h = 5 /\ ext.out.h = 4

(***************************************************************************)
(* nv::countMipmaps(w) and nv::countMipmaps(w, h, d).  The three-argument  *)
(* loop runs one iteration per step (SpecMip); calc holds its arguments    *)
(* and its locals.                                                         *)
(***************************************************************************)
\* Largest width, height and depth given to countMipmaps.
MaxMipW == 300
MaxMipH == 4
MaxMipD == 3

\* A faulty variant: halving that rounds up.
MipHalve_ceil(x) == Max2(1, (x + 1) \div 2)

\* max(1U, w / 2)
MipHalve(x) == Max2(1, x \div 2)

\* The iterations of the loop of countMipmaps(w).
RECURSIVE MipLoop(_, _)
MipLoop(w, mipmap) == IF w # 1 THEN MipLoop(MipHalve(w), mipmap + 1) ELSE mipmap

\* nv::countMipmaps(uint w)
countMipmaps(w) == MipLoop(w, 0) + 1

\* No Surface exists while a function on values is checked.
NoSurfaces ==
    /\ m = [s \in Handles |-> 0]
    /\ heap = [id \in StateIds |-> FreeCell]
    /\ last = Done("none", 0, FALSE, 0)
    /\ fault = FALSE
    /\ ops = 0
    /\ ext = ExtIdle

InitMip ==
    /\ NoSurfaces
    /\ \E w \in 1..MaxMipW, h \in 1..MaxMipH, d \in 1..MaxMipD :
          calc = [fn |-> "countMipmaps", args |-> <<w, h, d>>,
                  w |-> w, h |-> h, d |-> d, mipmap |-> 0, pc |-> "while", result |-> 0]

\* One iteration of while (w != 1 || h != 1 || d != 1).
countMipmapsLoop ==
    /\ calc.pc = "while"
    /\ calc.w # 1 \/ calc.h # 1 \/ calc.d # 1
    /\ calc' = [calc EXCEPT !.w = MipHalve(calc.w), !.h = MipHalve(calc.h),
                            !.d = MipHalve(calc.d), !.mipmap = calc.mipmap + 1]
    /\ UNCHANGED <<m, heap, last, fault, ops, ext>>

\* return mipmap + 1;
countMipmapsReturn ==
    /\ calc.pc = "while"
    /\ ~(calc.w # 1 \/ calc.h # 1 \/ calc.d # 1)
    /\ calc' = [calc EXCEPT !.pc = "done", !.result = calc.mipmap + 1]
    /\ UNCHANGED <<m, heap, last, fault, ops, ext>>

NextMip ==
    \/ countMipmapsLoop
    \/ countMipmapsReturn

\* A call that has started runs on: the loop is sequential code.
SpecMip == InitMip /\ [][NextMip]_vars /\ WF_vars(NextMip)

\* C11: for all w, h, d >= 1 countMipmaps(w, h, d) terminates, and what it
\* returns is countMipmaps(max(w, h, d)), which is floor(log2(max)) + 1: the
\* n with 2^(n-1) <= max < 2^n.  countMipmaps(1) = 1, countMipmaps(256) = 9.
MipCountIsLogOfLargest ==
    /\ [](calc.pc = "done" =>
            LET largest == Max2(Max2(calc.args[1], calc.args[2]), calc.args[3])
            IN  /\ calc.result = countMipmaps(largest)
                /\ 2 ^ (calc.result - 1) <= largest
                /\ largest < 2 ^ calc.result
                /\ calc.w = 1 /\ calc.h = 1 /\ calc.d = 1
                /\ countMipmaps(1) = 1
                /\ countMipmaps(256) = 9)
    /\ <>(calc.pc = "done")

\* C11, its case: countMipmaps(300, 1, 1) has returned 9.
MipCountOf300 ==
    /\ calc.pc = "done"
    /\ calc.args = <<300, 1, 1>>
    /\ calc.result = 9

(***************************************************************************)
(* Surface::setImage2D on one Surface, for images of several blocks        *)
(* (SpecBlocks).                                                           *)
(***************************************************************************)
\* Largest width and height given to setImage2D.
MaxBlockDim == 6

Formats == {Format_RGBA, Format_BC1, Format_BC2, Format_BC3, Format_BC4, Format_BC5,
            Format_BC6, Format_BC7}

\* One default-constructed Surface, and the arguments setImage2D will be
\* called with.
InitBlocks ==
    /\ m = [s \in Handles |-> IF s = 1 THEN 1 ELSE 0]
    /\ heap = [id \in StateIds |-> IF id = 1 THEN [NewPrivate EXCEPT !.refCount = 1] ELSE FreeCell]
    /\ last = Done("Surface", 1, FALSE, 0)
    /\ fault = FALSE
    /\ ops = 0
    /\ ext = ExtIdle
    /\ \E f \in Formats, w \in 1..MaxBlockDim, h \in 1..MaxBlockDim, pattern \in BlockPatterns :
          calc = [fn |-> "setImage2D", format |-> f, w |-> w, h |-> h, pattern |-> pattern]

NextBlocks ==
    setImage2D(1, calc.format, calc.w, calc.h,
               DecodedBlocks(calc.format, calc.w, calc.h, calc.pattern))

SpecBlocks == InitBlocks /\ [][NextBlocks]_vars

\* C12: setImage2D with a format other than BC1..BC5 changes nothing: no
\* detach, no allocation, the same buffer or none, the same shape, type and
\* sharing.
\* (A step that changes m or heap is a step of setImage2D only if it
\* records setImage2D in last: Commit writes it, Return changes nothing.)
UnsupportedFormatChangesNothing ==
    [][\/ UNCHANGED <<m, heap>>
       \/ last'.op # "setImage2D"
       \/ \A s \in Handles, f \in {Format_RGBA, Format_BC6, Format_BC7}, sh \in Shapes :
             ~\E src \in InputBlocks(f, sh.w, sh.h) : setImage2D(s, f, sh.w, sh.h, src)]_vars

\* C12, its case: a surface that holds the image of an earlier, successful
\* setImage2D and is now shared, on which the unsupported format is tried.
SharedAfterSetImage2D ==
    \E s \in Handles :
        /\ Alive(s)
        /\ ~isNullOf(s)
        /\ State(s).refCount > 1
        /\ last.op = "SurfaceCopy"
        /\ State(s).image.px[1] = [i \in 0..(State(s).image.w - 1) |-> 1]
        /\ State(s).image.px[2] = [i \in 0..(State(s).image.w - 1) |-> 0]

\* The bytes one block takes: 8 for BC1 and BC4, 16 for BC2, BC3 and BC5.
BlockBytes(format) == IF format \in {Format_BC1, Format_BC4} THEN 8 ELSE 16

\* C13: after a successful setImage2D the surface is w x h x 1 of type 2D;
\* the input was read as ceil(w/4) * ceil(h/4) consecutive blocks of the
\* format's size in row-major order; every pixel (x, y) inside w x h was
\* written exactly once, with the color block (x div 4, y div 4) decodes at
\* (x mod 4, y mod 4) divided by 255; nothing outside w x h was written; and
\* blocks of one solid color fill the image with that color.
BlockScatter ==
    (calc.fn = "setImage2D" /\ last.op = "setImage2D") =>
        LET img == State(1).image
            w == calc.w
            h == calc.h
            bw == (w + 3) \div 4
            bh == (h + 3) \div 4
            writes == ScatterWrites(calc.format, w, h)
        IN  /\ ~img.null /\ img.w = w /\ img.h = h /\ img.d = 1
            /\ State(1).type = TextureType_2D
            /\ {wr.ptr : wr \in writes} = {k * BlockBytes(calc.format) : k \in 0..(bw * bh - 1)}
            /\ \A wr \in writes : wr.px < w /\ wr.py < h
            /\ \A x \in 0..(w - 1), y \in 0..(h - 1) :
                  /\ Cardinality({wr \in writes : wr.px = x /\ wr.py = y}) = 1
                  /\ \A c \in Channels :
                        255 * img.px[c][y * w + x] =
                            TexelColor(calc.pattern, (y \div 4) * bw + (x \div 4),
                                       4 * (y % 4) + (x % 4))[c + 1]
            /\ calc.pattern = 1 =>
                  \A i \in 0..(w * h - 1) :
                      <<img.px[0][i], img.px[1][i], img.px[2][i], img.px[3][i]>> = <<1, 0, 0, 1>>

\* C13, its case: a BC1 image of 5 x 6 pixels, four blocks of which three
\* are cut by the edges, has been read.
ScatteredPartialBlocks ==
    /\ calc.fn = "setImage2D" /\ last.op = "setImage2D"
    /\ calc.format = Format_BC1 /\ calc.w = 5 /\ calc.h = 6 /\ calc.pattern = 2
    /\ State(1).image.px[0][4] = 1
    /\ State(1).image.px[1][5 * 4] = 1

(***************************************************************************)
(* nvtt::diff on two surfaces of any small shapes and contents (SpecDiff). *)
(***************************************************************************)
\* Largest width and height of the images given to diff.
MaxDiffDim == 2

\* The images given to diff: none, and rows and columns of pixels in two
\* colorings.
DiffImages ==
    {NullImage} \cup
    {MakeImage(sh[1], sh[2], 1,
               [c \in Channels |-> [i \in 0..(sh[1] * sh[2] - 1) |-> (3 * k + 2 * c + i) % 5]]) :
        sh \in {<<w, h>> \in (1..MaxDiffDim) \X (1..MaxDiffDim) : w = 1 \/ h = 1}, k \in 0..1}

DiffScales == {-1, 1, 2}

InitDiff ==
    /\ NoSurfaces
    /\ \E ref \in DiffImages, img \in DiffImages, am \in AlphaModes, scale \in DiffScales :
          calc = [fn |-> "diff",
                  reference |-> [NewPrivate EXCEPT !.image = ref, !.alphaMode = am],
                  image |-> [NewPrivate EXCEPT !.image = img],
                  scale |-> scale, called |-> FALSE, result |-> NullImage]

diffCall ==
    /\ ~calc.called
    /\ calc' = [calc EXCEPT !.called = TRUE,
                            !.result = diffImage(calc.reference, calc.image, calc.scale)]
    /\ UNCHANGED <<m, heap, last, fault, ops, ext>>

NextDiff == diffCall

SpecDiff == InitDiff /\ [][NextDiff]_vars

\* Two images have buffers of the same width, height and depth.
SameShape(a, b) == ~a.null /\ ~b.null /\ a.w = b.w /\ a.h = b.h /\ a.d = b.d

\* C14: diff of two surfaces of different layouts is a null Surface;
\* otherwise it has their shape, RGB = scale * (image - reference), times
\* the reference alpha when the reference's alpha mode is Transparency, and
\* alpha = the reference alpha; identical inputs with alpha mode None give
\* zero RGB.
DiffIsScaledDelta ==
    (calc.fn = "diff" /\ calc.called) =>
        LET ref == calc.reference.image
            img == calc.image.image
            res == calc.result
        IN  IF ~SameShape(ref, img)
            THEN res.null
            ELSE /\ SameShape(res, img)
                 /\ \A i \in 0..(img.w * img.h * img.d - 1) :
                       /\ res.px[3][i] = ref.px[3][i]
                       /\ \A c \in 0..2 :
                             res.px[c][i] =
                                 IF calc.reference.alphaMode = AlphaMode_Transparency
                                 THEN calc.scale * (img.px[c][i] - ref.px[c][i]) * ref.px[3][i]
                                 ELSE calc.scale * (img.px[c][i] - ref.px[c][i])
                 /\ (img = ref /\ calc.reference.alphaMode = AlphaMode_None) =>
                       \A i \in 0..(img.w * img.h * img.d - 1), c \in 0..2 : res.px[c][i] = 0

\* C14, its case: the two images differ, the reference is transparent with
\* an alpha other than 0 and 1, and the difference was scaled by 2.
DiffWeightedByAlpha ==
    /\ calc.fn = "diff" /\ calc.called
    /\ calc.reference.alphaMode = AlphaMode_Transparency
    /\ calc.scale = 2
    /\ ~calc.result.null
    /\ calc.reference.image.px[3][0] > 1
    /\ calc.result.px[0][0] = 2 * (calc.image.image.px[0][0] - calc.reference.image.px[0][0])
                                * calc.reference.image.px[3][0]
    /\ calc.result.px[0][0] # 0
    /\ calc.result.px[3][0] # calc.image.image.px[3][0]

(***************************************************************************)
(* copyChannel and addChannel (Spec).                                      *)
(***************************************************************************)
\* The step wrote to handle s a state that differs from the one s had only
\* in channel dstChannel, which now holds channel; no other handle changed.
OnlyChannelChanged(s, dstChannel, channel) ==
    LET before == heap[m[s]]
        after == heap'[m'[s]]
    IN  /\ after.refCount = 1
        /\ after.image.px[dstChannel] = channel
        /\ [after EXCEPT !.image.px[dstChannel] = before.image.px[dstChannel]]
              = [before EXCEPT !.refCount = 1]
        /\ \A b \in Handles \ {s} :
              Alive(b) => (m'[b] = m[b] /\ Observed(heap', m', b) = Observed(heap, m, b))

\* C15: copyChannel and addChannel change nothing (no detach) when a channel
\* index is outside 0..3 or the layouts differ; otherwise exactly channel
\* dstChannel of the destination changes, to the source channel or by scale
\* times the source channel, and the source is unchanged, also when the two
\* handles shared one state.
\* (A refused call is Return, which changes no variable; a call that
\* writes records its name in last, so only those steps need be examined.)
ChannelOpsWriteOneChannel ==
    [][last'.op \in {"copyChannel", "addChannel"} =>
       \A s \in Handles, t \in Handles, ch \in ChannelArgs, scale \in ScaleArgs :
          IF Alive(s) /\ Alive(t)
          THEN LET dst == heap[m[s]].image
                   src == heap[m[t]].image
                   refused == ch[1] \notin 0..3 \/ ch[2] \notin 0..3 \/ ~SameShape(dst, src)
               IN  /\ copyChannel(s, t, ch[1], ch[2]) =>
                          IF refused
                          THEN UNCHANGED <<m, heap>>
                          ELSE OnlyChannelChanged(s, ch[2], src.px[ch[1]])
                   /\ addChannel(s, t, ch[1], ch[2], scale) =>
                          IF refused
                          THEN UNCHANGED <<m, heap>>
                          ELSE OnlyChannelChanged(s, ch[2],
                                  [i \in 0..(dst.w * dst.h * dst.d - 1) |->
                                      dst.px[ch[2]][i] + scale * src.px[ch[1]][i]])
          ELSE TRUE]_vars

\* C15, its case: addChannel was called with a source that shared the state
\* of the destination, which was cloned, and the two now differ.
AddChannelFromSharer ==
    /\ last.op = "addChannel"
    /\ last.cloned
    /\ \E t \in Handles \ {last.h} :
          /\ Alive(t)
          /\ State(t).image.px[1] # State(last.h).image.px[1]
          /\ State(t).image.px[0] = State(last.h).image.px[0]

(***************************************************************************)
(* Arithmetic on pixel values.  The code computes in float; the per-pixel  *)
(* formulas below are taken in exact arithmetic, on fractions n/d kept in  *)
(* lowest terms with d > 0, so that equal values are equal records.  What  *)
(* is shown of them holds of the formulas; float rounding is not modelled. *)
(***************************************************************************)
Abs(x) == IF x < 0 THEN -x ELSE x

RECURSIVE Gcd(_, _)
Gcd(a, b) == IF b = 0 THEN a ELSE Gcd(b, a % b)

\* The fraction n/d, d # 0, in lowest terms.
Frac(n, d) ==
    LET g == Gcd(Abs(n), Abs(d))
        sign == IF d < 0 THEN -1 ELSE 1
    IN  [n |-> sign * (n \div g), d |-> sign * (d \div g)]

Num(k) == [n |-> k, d |-> 1]

\* Sums over the least common denominator and products reduced crosswise
\* keep the intermediate integers small.
FAdd(a, b) ==
    LET g == Gcd(a.d, b.d)
    IN  Frac(a.n * (b.d \div g) + b.n * (a.d \div g), (a.d \div g) * b.d)
FNeg(a) == [n |-> -a.n, d |-> a.d]
FSub(a, b) == FAdd(a, FNeg(b))
FMul(a, b) ==
    LET x == Frac(a.n, b.d)
        y == Frac(b.n, a.d)
    IN  [n |-> x.n * y.n, d |-> x.d * y.d]
\* a / b, for b # 0.
FDiv(a, b) == FMul(a, Frac(b.d, b.n))
\* a < b: by the integer parts, then by the remainders over the least
\* common denominator.
FLess(a, b) ==
    IF a.n \div a.d # b.n \div b.d
    THEN a.n \div a.d < b.n \div b.d
    ELSE LET g == Gcd(a.d, b.d)
         IN  (a.n % a.d) * (b.d \div g) < (b.n % b.d) * (a.d \div g)
FLeq(a, b) == ~FLess(b, a)
FMax(a, b) == IF FLess(a, b) THEN b ELSE a
FMin(a, b) == IF FLess(b, a) THEN b ELSE a
\* nv::clamp(x, lo, hi)
FClamp(x, lo, hi) == FMin(FMax(x, lo), hi)
\* floorf(x), as an integer.
FFloor(x) == x.n \div x.d

(***************************************************************************)
(* Per-pixel color encodings.  A pixel is <<r, g, b, a>>; each operator is *)
(* the body of the loop its method runs over every pixel of the image.     *)
(***************************************************************************)
fromYCoCg_unscaled(p) ==
    LET Co == p[1]
        Cg == p[2]
        Y  == p[4]
    IN  << FSub(FAdd(Y, Co), Cg), FAdd(Y, Cg), FSub(FSub(Y, Co), Cg), Num(1) >>

toYCoCg(p) ==
    LET R  == p[1]
        G  == p[2]
        B  == p[3]
        Y  == FMul(FAdd(FAdd(FMul(Num(2), G), R), B), Frac(1, 4))
        Co == FSub(R, B)
        Cg == FMul(FSub(FSub(FMul(Num(2), G), R), B), Frac(1, 2))
    IN  << Co, Cg, Num(1), Y >>

fromYCoCg(p) ==
    LET scale == FMul(p[3], Frac(1, 2))
        Y  == p[4]
        Co == FMul(p[1], scale)
        Cg == FMul(p[2], scale)
    IN  << FSub(FAdd(Y, Co), Cg), FAdd(Y, Cg), FSub(FSub(Y, Co), Cg), Num(1) >>

\* The threshold toRGBM works with.
RGBMThreshold(threshold) == FClamp(threshold, Frac(1, 1000000), Num(1))

\* For a threshold below 1 (at 1 the alpha is 0/0).
toRGBM(p, range, threshold) ==
    LET th == RGBMThreshold(threshold)
        R  == FClamp(p[1], Num(0), Num(1))
        G  == FClamp(p[2], Num(0), Num(1))
        B  == FClamp(p[3], Num(0), Num(1))
        M  == FMax(FMax(R, G), FMax(B, th))
    IN  << FDiv(R, M), FDiv(G, M), FDiv(B, M),
           FDiv(FSub(M, th), FSub(Num(1), th)) >>

fromRGBM(p, range) ==
    LET M == FMul(p[4], range)
    IN  << FMul(p[1], M), FMul(p[2], M), FMul(p[3], M), Num(1) >>

\* FloatImage::scaleBias on the pixel: channels base .. base + num - 1.
scaleBias(p, base, num, scale, bias) ==
    [c \in 1..4 |-> IF c - 1 >= base /\ c - 1 < base + num
                    THEN FAdd(FMul(scale, p[c]), bias)
                    ELSE p[c]]

packNormal(p) == scaleBias(p, 0, 3, Frac(1, 2), Frac(1, 2))
expandNormal_allChannels(p) == scaleBias(p, 0, 4, Num(2), Num(-1))
expandNormal(p) == scaleBias(p, 0, 3, Num(2), Num(-1))
\* FloatImage::packNormals(0) and expandNormals(0): [-1,1] -> [0,1] and back.
packNormals(p) == scaleBias(p, 0, 3, Frac(1, 2), Frac(1, 2))
expandNormals(p) == scaleBias(p, 0, 3, Num(2), Num(-1))

(***************************************************************************)
(* The encodings on one pixel: calc holds the pixel as given (color), the  *)
(* pixel as it stands (px) and the calls still to make (todo).             *)
(***************************************************************************)
ColorValues == {Num(-1), Num(0), Frac(1, 3), Frac(1, 2), Num(1), Num(2)}
AlphaValues == {Frac(1, 2), Num(1)}
Colors == {<<r, g, b, a>> : r \in ColorValues, g \in ColorValues,
                            b \in ColorValues, a \in AlphaValues}
RGBMRanges == {Num(1), Num(2)}
RGBMThresholds == {Num(0), Frac(1, 4), Frac(1, 2)}
\* The colors whose components lie in [0, range].
ColorsWithin(range) ==
    {c \in Colors : \A k \in 1..3 : FLeq(Num(0), c[k]) /\ FLeq(c[k], range)}

CodecCalls ==
    {<<"toYCoCg", "fromYCoCg">>, <<"toRGBM", "fromRGBM">>,
     <<"packNormal", "expandNormal">>, <<"packNormals", "expandNormals">>,
     <<"expandNormals", "packNormals">>}

InitCodec ==
    /\ NoSurfaces
    /\ \E calls \in CodecCalls :
         IF calls[1] = "toRGBM"
         THEN \E range \in RGBMRanges, th \in RGBMThresholds :
              \E c \in ColorsWithin(range) :
                 calc = [fn |-> calls[1], color |-> c, px |-> c, todo |-> calls,
                         range |-> range, threshold |-> th]
         ELSE \E c \in Colors :
                 calc = [fn |-> calls[1], color |-> c, px |-> c, todo |-> calls,
                         range |-> Num(1), threshold |-> Num(0)]

Called(name) == calc.todo # <<>> /\ Head(calc.todo) = name

CodecStep(px) ==
    /\ calc' = [calc EXCEPT !.px = px, !.todo = Tail(calc.todo)]
    /\ UNCHANGED <<m, heap, last, fault, ops, ext>>

toYCoCgCall == Called("toYCoCg") /\ CodecStep(toYCoCg(calc.px))
fromYCoCgCall == Called("fromYCoCg") /\ CodecStep(fromYCoCg(calc.px))
toRGBMCall ==
    Called("toRGBM") /\ CodecStep(toRGBM(calc.px, calc.range, calc.threshold))
fromRGBMCall == Called("fromRGBM") /\ CodecStep(fromRGBM(calc.px, calc.range))
packNormalCall == Called("packNormal") /\ CodecStep(packNormal(calc.px))
expandNormalCall == Called("expandNormal") /\ CodecStep(expandNormal(calc.px))
packNormalsCall == Called("packNormals") /\ CodecStep(packNormals(calc.px))
expandNormalsCall ==
    Called("expandNormals") /\ CodecStep(expandNormals(calc.px))

NextCodec ==
    \/ toYCoCgCall
    \/ fromYCoCgCall
    \/ toRGBMCall
    \/ fromRGBMCall
    \/ packNormalCall
    \/ expandNormalCall
    \/ packNormalsCall
    \/ expandNormalsCall

SpecCodec == InitCodec /\ [][NextCodec]_vars

\* The round trip named fn has made both of its calls.
RoundTripDone(fn) == calc.fn = fn /\ calc.todo = <<>>

FAbs(x) == [n |-> Abs(x.n), d |-> x.d]
\* a and b differ by no more than 1/1000.
Near(a, b) == FLeq(FAbs(FSub(a, b)), Frac(1, 1000))

\* C17: for a color with components in [0, range], fromRGBM(range) after
\* toRGBM(range, threshold) returns the color, up to rounding.
RGBMRoundTrip ==
    RoundTripDone("toRGBM") =>
        \A k \in 1..3 : Near(calc.px[k], calc.color[k])

MaxQuantW == 3
MaxQuantH == 2
MaxQuantD == 2
QuantBits == {1, 2, 8}
QuantChannels == {0, 1}

RECURSIVE Pow2(_)
Pow2(bits) == IF bits = 0 THEN 1 ELSE 2 * Pow2(bits - 1)

QuantizeScale_pow2(bits, exactEndPoints) == Pow2(bits)

QuantizeScale(bits, exactEndPoints) ==
    IF exactEndPoints THEN Pow2(bits) - 1 ELSE Pow2(bits)

QuantizeOffset_zero(exactEndPoints) == Num(0)

QuantizeOffset(exactEndPoints) ==
    IF exactEndPoints THEN Num(0) ELSE Frac(1, 2)

\* floorf(f * scale + offset) / scale
Quantized(f, scale, offset) ==
    Frac(FFloor(FAdd(FMul(f, Num(scale)), offset)), scale)

ZeroRow(w) == [k \in 0..(w + 1) |-> Num(0)]

QuantValues ==
    <<Num(0), Frac(3, 10), Frac(1, 2), Frac(3, 5), Frac(127, 255), Num(1)>>

\* The channel contents tried: every constant, and two gradients.
QuantChannelData(n) ==
    {[i \in 0..(n - 1) |-> QuantValues[v]] : v \in 1..Len(QuantValues)} \cup
    {[i \in 0..(n - 1) |-> QuantValues[((i + s) % Len(QuantValues)) + 1]] :
        s \in {0, 3}}

InitQuantize ==
    /\ NoSurfaces
    /\ \E w \in 1..MaxQuantW, h \in 1..MaxQuantH, d \in 1..MaxQuantD :
       \E channel \in QuantChannels, bits \in QuantBits :
       \E exactEndPoints \in BOOLEAN, dither \in BOOLEAN :
       \E values \in QuantChannelData(w * h * d) :
          LET image == [c \in QuantChannels |->
                           IF c = channel THEN values
                           ELSE [i \in 0..(w * h * d - 1) |-> Frac(1, 3)]]
          IN  calc = [fn |-> "quantize", channel |-> channel, bits |-> bits,
                      exactEndPoints |-> exactEndPoints, dither |-> dither,
                      w |-> w, h |-> h, d |-> d,
                      input |-> image, img |-> image,
                      x |-> 0, y |-> 0, z |-> 0,
                      row0 |-> ZeroRow(w), row1 |-> ZeroRow(w),
                      pc |-> "begin"]

QuantizeFrame == UNCHANGED <<m, heap, last, fault, ops, ext>>

\* The loop of the !dither branch.
quantizeUndithered ==
    /\ calc.pc = "begin"
    /\ ~calc.dither
    /\ LET scale  == QuantizeScale(calc.bits, calc.exactEndPoints)
           offset == QuantizeOffset(calc.exactEndPoints)
           c      == calc.img[calc.channel]
       IN  calc' = [calc EXCEPT
                      !.img[calc.channel] =
                          [i \in DOMAIN c |-> Quantized(c[i], scale, offset)],
                      !.pc = "done"]
    /\ QuantizeFrame

\* Entry of the dither branch: the rows are allocated and cleared for z = 0.
quantizeDither ==
    /\ calc.pc = "begin"
    /\ calc.dither
    /\ calc' = [calc EXCEPT !.row0 = ZeroRow(calc.w), !.row1 = ZeroRow(calc.w),
                            !.pc = "pixel"]
    /\ QuantizeFrame

\* One iteration of the x loop, with what follows it when the row, the
\* slice or the image ends.  The pixel is pixel(channel, x, y, 0), of
\* slice 0 whatever z is; err is the local diff.
quantizeDitherPixel ==
    /\ calc.pc = "pixel"
    /\ LET w      == calc.w
           x      == calc.x
           scale  == QuantizeScale(calc.bits, calc.exactEndPoints)
           offset == QuantizeOffset(calc.exactEndPoints)
           i      == (0 * calc.h + calc.y) * w + x
           f      == calc.img[calc.channel][i]
           qf     == Quantized(FAdd(f, calc.row0[1 + x]), scale, offset)
           err    == FSub(f, qf)
           r0     == [calc.row0 EXCEPT
                        ![x + 2] = FAdd(@, FMul(Frac(7, 16), err))]
           r1a    == [calc.row1 EXCEPT
                        ![x] = FAdd(@, FMul(Frac(3, 16), err))]
           r1b    == [r1a EXCEPT ![x + 1] = FAdd(@, FMul(Frac(5, 16), err))]
           r1     == [r1b EXCEPT ![x + 2] = FAdd(@, FMul(Frac(1, 16), err))]
           rowEnd   == x + 1 = w
           sliceEnd == rowEnd /\ calc.y + 1 = calc.h
           imageEnd == sliceEnd /\ calc.z + 1 = calc.d
       IN  calc' = [calc EXCEPT
                      !.img[calc.channel][i] = qf,
                      !.x = IF rowEnd THEN 0 ELSE x + 1,
                      !.y = IF sliceEnd THEN 0
                            ELSE IF rowEnd THEN calc.y + 1 ELSE calc.y,
                      !.z = IF sliceEnd THEN calc.z + 1 ELSE calc.z,
                      !.row0 = IF sliceEnd THEN ZeroRow(w)
                               ELSE IF rowEnd THEN r1 ELSE r0,
                      !.row1 = IF rowEnd THEN ZeroRow(w) ELSE r1,
                      !.pc = IF imageEnd THEN "done" ELSE "pixel"]
    /\ QuantizeFrame

NextQuantize ==
    \/ quantizeUndithered
    \/ quantizeDither
    \/ quantizeDitherPixel

SpecQuantize == InitQuantize /\ [][NextQuantize]_vars

\* The channel quantize was given holds the one value c in every pixel.
ConstantInput(c) ==
    \A i \in DOMAIN calc.input[calc.channel] : calc.input[calc.channel][i] = c

\* floor(c * scale + offset) for offset 0 and offset 1/2, on the integers
\* of the fraction c.
FloorScaled(c, scale, half) ==
    IF half THEN (2 * c.n * scale + c.d) \div (2 * c.d)
    ELSE (c.n * scale) \div c.d

DitheredConstant(c) ==
    /\ calc.fn = "quantize" /\ calc.dither
    /\ calc.bits = 8 /\ calc.exactEndPoints
    /\ ConstantInput(c)

\* The error rows hold no error, and once quantize is done the channel is
\* as it was given.
NoErrorNoChange ==
    /\ calc.row0 = ZeroRow(calc.w)
    /\ calc.row1 = ZeroRow(calc.w)
    /\ calc.pc = "done" => calc.img[calc.channel] = calc.input[calc.channel]

\* C20 (as stated): dithered quantize(channel, 8, true, true) of a channel
\* holding any one value c in [0, 1] leaves every pixel equal to c, and the
\* error rows stay empty.
DitherKeepsConstant ==
    \A v \in 1..Len(QuantValues) :
        DitheredConstant(QuantValues[v]) => NoErrorNoChange

\* C20 (amended): dithered quantize(channel, 8, true, true) of a channel
\* holding one value c = k / 255, k an integer of 0..255, leaves every
\* pixel equal to c, and the error rows stay empty.
DitherKeepsRepresentable ==
    \A v \in 1..Len(QuantValues) :
        LET c == QuantValues[v]
        IN  DitheredConstant(c) /\ (255 * c.n) % c.d = 0 => NoErrorNoChange

\* C20 witness: the dithered quantize of the largest image holding 127/255
\* is done, every pixel of slice 0 visited once per slice.
DitheredRepresentable ==
    /\ DitheredConstant(Frac(127, 255))
    /\ calc.pc = "done"
    /\ calc.w = MaxQuantW /\ calc.h = MaxQuantH /\ calc.d = MaxQuantD
    /\ calc.z = MaxQuantD
    /\ calc.img = calc.input

(***************************************************************************)
(* Surface::histogram on one channel.  calc holds the arguments, the       *)
(* channel values c (empty for a null image), the caller's bins as they    *)
(* were (bins0) and as they stand (bins), the loop index i and the bins    *)
(* indexed so far (used).                                                  *)
(***************************************************************************)
MaxHistPixels == 3
HistValues == {Frac(-1, 2), Num(0), Frac(1, 2), Num(1), Frac(3, 2), Num(2), Frac(5, 2)}
\* <<rangeMin, rangeMax>>, rangeMin < rangeMax.
HistRanges == {<<Num(0), Num(1)>>, <<Num(0), Num(2)>>, <<Num(1), Num(2)>>,
               <<Num(-1), Num(1)>>}
HistBinCounts == {1, 2, 4}
HistFill == {0, 5}

\* float scale = float(binCount) / rangeMax, for rangeMax # 0.
HistScale(binCount, rangeMin, rangeMax) == FDiv(Num(binCount), rangeMax)

HistBias(binCount, rangeMin, rangeMax) ==
    FNeg(FMul(HistScale(binCount, rangeMin, rangeMax), rangeMin))

\* The bin one value goes to: ifloor(f), clamped to 0 .. binCount - 1.
HistIndex(v, binCount, rangeMin, rangeMax) ==
    LET idx == FFloor(FAdd(FMul(v, HistScale(binCount, rangeMin, rangeMax)),
                           HistBias(binCount, rangeMin, rangeMax)))
    IN  IF idx < 0 THEN 0
        ELSE IF idx > binCount - 1 THEN binCount - 1 ELSE idx

InitHistogram ==
    /\ NoSurfaces
    /\ \E n \in 0..MaxHistPixels, range \in HistRanges :
       \E binCount \in HistBinCounts, count \in HistFill :
       \E c \in [0..(n - 1) -> HistValues] :
          calc = [fn |-> "histogram", c |-> c,
                  rangeMin |-> range[1], rangeMax |-> range[2],
                  binCount |-> binCount,
                  bins0 |-> [k \in 0..(binCount - 1) |-> count],
                  bins |-> [k \in 0..(binCount - 1) |-> count],
                  i |-> 0, used |-> {}, pc |-> "loop"]

HistFrame == UNCHANGED <<m, heap, last, fault, ops, ext>>

\* One iteration of the loop over the pixels.
histogramLoop ==
    /\ calc.fn = "histogram"
    /\ calc.pc = "loop"
    /\ calc.i < Cardinality(DOMAIN calc.c)
    /\ LET idx == HistIndex(calc.c[calc.i], calc.binCount,
                            calc.rangeMin, calc.rangeMax)
       IN  calc' = [calc EXCEPT !.bins[idx] = @ + 1,
                                !.used = @ \cup {idx},
                                !.i = @ + 1]
    /\ HistFrame

\* m->image == NULL, or the loop is over.
histogramReturn ==
    /\ calc.fn = "histogram"
    /\ calc.pc = "loop"
    /\ calc.i = Cardinality(DOMAIN calc.c)
    /\ calc' = [calc EXCEPT !.pc = "done"]
    /\ HistFrame

NextHistogram ==
    \/ histogramLoop
    \/ histogramReturn

SpecHistogram == InitHistogram /\ [][NextHistogram]_vars

\* clamp(floor((v - rangeMin) / (rangeMax - rangeMin) * binCount), 0,
\* binCount - 1)
LinearBin(v, binCount, rangeMin, rangeMax) ==
    LET idx == FFloor(FMul(FDiv(FSub(v, rangeMin), FSub(rangeMax, rangeMin)),
                           Num(binCount)))
    IN  Max2(0, Min2(binCount - 1, idx))

\* C21: histogram increments, for each pixel value v, exactly the bin
\* clamp(floor((v - rangeMin) / (rangeMax - rangeMin) * binCount), 0,
\* binCount - 1), adds to the caller's counts without clearing them, indexes
\* only 0 .. binCount - 1, and raises the sum of the bins by the pixel count.
HistogramBucketsLinearly ==
    calc.fn = "histogram" /\ calc.pc = "done" =>
        /\ calc.used \subseteq 0..(calc.binCount - 1)
        /\ \A k \in 0..(calc.binCount - 1) :
              calc.bins[k] = calc.bins0[k] +
                  Cardinality({i \in DOMAIN calc.c :
                      LinearBin(calc.c[i], calc.binCount,
                                calc.rangeMin, calc.rangeMax) = k})

(***************************************************************************)
(* Two threads, each with its own Surface handle, the two handles sharing  *)
(* one state at first.  Each thread runs mutating operations on its own    *)
(* handle: detach(), statement by statement, then the write to the buffer. *)
(* calc holds the states st (reference count, freed, the value written),   *)
(* the state h[t] each handle points to, each thread's position pc[t], the *)
(* access it has under way (busy[t]), the number of operations it has      *)
(* finished (n[t]), the lock of externally serialized callers, and what    *)
(* went wrong: a buffer accessed by two threads at once with one of them   *)
(* writing (race), a freed state accessed (dangling).                      *)
(***************************************************************************)
Threads == {1, 2}
MaxThreadOps == 2
NotBusy == <<0, "none">>

MustDetach_never(refCount) == FALSE

\* if (m->refCount() > 1)
MustDetach(refCount) == refCount > 1

InitThreads ==
    /\ NoSurfaces
    /\ \E serialized \in BOOLEAN :
          calc = [fn |-> "threads", serialized |-> serialized, lock |-> 0,
                  st |-> <<[refCount |-> 2, freed |-> FALSE, value |-> 0]>>,
                  h |-> [t \in Threads |-> 1],
                  pc |-> [t \in Threads |-> "idle"],
                  busy |-> [t \in Threads |-> NotBusy],
                  n |-> [t \in Threads |-> 0],
                  race |-> FALSE, dangling |-> FALSE]

ThreadFrame == UNCHANGED <<m, heap, last, fault, ops, ext>>

At(t, pc) == calc.fn = "threads" /\ calc.pc[t] = pc

\* Thread t accesses state p: a freed state is a dangling access.
Touch(t, p) == calc.dangling \/ calc.st[p].freed

\* Thread t starts a read or a write of the buffer of state p while the other
\* thread is in the middle of an access to it, one of the two writing.
Collides(t, p, kind) ==
    \E u \in Threads \ {t} :
        /\ calc.busy[u][1] = p
        /\ kind = "write" \/ calc.busy[u][2] = "write"

\* The thread calls a mutating operation; serialized callers take the lock.
threadCall(t) ==
    /\ At(t, "idle")
    /\ calc.n[t] < MaxThreadOps
    /\ calc.serialized => calc.lock = 0
    /\ calc' = [calc EXCEPT !.pc[t] = "test",
                            !.lock = IF calc.serialized THEN t ELSE 0]
    /\ ThreadFrame

\* if (m->refCount() > 1)
detachTest(t) ==
    /\ At(t, "test")
    /\ LET p == calc.h[t]
       IN  calc' = [calc EXCEPT
                      !.pc[t] = IF MustDetach(calc.st[p].refCount)
                                THEN "release" ELSE "write",
                      !.dangling = Touch(t, p)]
    /\ ThreadFrame

\* m->release(): the count goes down, and the state is deleted at zero.
detachRelease(t) ==
    /\ At(t, "release")
    /\ LET p == calc.h[t]
           count == calc.st[p].refCount - 1
       IN  calc' = [calc EXCEPT
                      !.st[p].refCount = count,
                      !.st[p].freed = @ \/ count = 0,
                      !.pc[t] = "copy",
                      !.dangling = Touch(t, p)]
    /\ ThreadFrame

\* new Surface::Private(*m) starts reading the state it has just released.
detachCopyBegin(t) ==
    /\ At(t, "copy")
    /\ LET p == calc.h[t]
       IN  calc' = [calc EXCEPT
                      !.busy[t] = <<p, "read">>,
                      !.pc[t] = "copying",
                      !.race = @ \/ Collides(t, p, "read"),
                      !.dangling = Touch(t, p)]
    /\ ThreadFrame

\* The copy is complete; m = the new state; m->addRef().
detachCopyEnd(t) ==
    /\ At(t, "copying")
    /\ LET p == calc.h[t]
           new == [refCount |-> 1, freed |-> FALSE, value |-> calc.st[p].value]
       IN  calc' = [calc EXCEPT
                      !.st = Append(@, new),
                      !.h[t] = Len(calc.st) + 1,
                      !.busy[t] = NotBusy,
                      !.pc[t] = "write"]
    /\ ThreadFrame

\* The operation starts writing the buffer of the handle's state.
writeBegin(t) ==
    /\ At(t, "write")
    /\ LET p == calc.h[t]
       IN  calc' = [calc EXCEPT
                      !.busy[t] = <<p, "write">>,
                      !.pc[t] = "writing",
                      !.race = @ \/ Collides(t, p, "write"),
                      !.dangling = Touch(t, p)]
    /\ ThreadFrame

\* The write is complete and the operation returns.
writeEnd(t) ==
    /\ At(t, "writing")
    /\ LET p == calc.h[t]
       IN  calc' = [calc EXCEPT
                      !.st[p].value = 10 * t + calc.n[t] + 1,
                      !.busy[t] = NotBusy,
                      !.pc[t] = "idle",
                      !.n[t] = @ + 1,
                      !.lock = 0]
    /\ ThreadFrame

NextThreads ==
    \/ \E t \in Threads : threadCall(t)
    \/ \E t \in Threads : detachTest(t)
    \/ \E t \in Threads : detachRelease(t)
    \/ \E t \in Threads : detachCopyBegin(t)
    \/ \E t \in Threads : detachCopyEnd(t)
    \/ \E t \in Threads : writeBegin(t)
    \/ \E t \in Threads : writeEnd(t)

SpecThreads == InitThreads /\ [][NextThreads]_vars

\* No buffer was accessed by the two threads at once, no freed state was
\* used, every handle holds the value its thread wrote last, and once both
\* threads have finished each handle solely owns a live state of count 1.
CopyOnWriteIntact ==
    /\ ~calc.race
    /\ ~calc.dangling
    /\ \A t \in Threads :
          calc.pc[t] = "idle" /\ calc.n[t] > 0 =>
              calc.st[calc.h[t]].value = 10 * t + calc.n[t]
    /\ (\A t \in Threads : calc.pc[t] = "idle" /\ calc.n[t] = MaxThreadOps) =>
          /\ calc.h[1] # calc.h[2]
          /\ \A t \in Threads : /\ calc.st[calc.h[t]].refCount = 1
                                /\ ~calc.st[calc.h[t]].freed

\* C22 (as stated): with one handle per thread, the handles sharing one state
\* at first, every interleaving of the threads' mutating operations keeps
\* copy-on-write intact.
OneHandlePerThreadIsSafe ==
    calc.fn = "threads" => CopyOnWriteIntact

\* C22 (amended): with one handle per thread, the handles sharing one state
\* at first, every interleaving of the threads' mutating operations in
\* which the callers serialize each detach-and-write keeps copy-on-write
\* intact.
SerializedWritersAreSafe ==
    calc.fn = "threads" /\ calc.serialized => CopyOnWriteIntact

\* C22 witness: serialized threads have finished; one of them cloned the
\* shared state, the other kept it as sole owner, and each holds its own
\* last value.
SerializedWritersDone ==
    /\ calc.fn = "threads" /\ calc.serialized
    /\ \A t \in Threads : calc.pc[t] = "idle" /\ calc.n[t] = MaxThreadOps
    /\ Len(calc.st) = 2
    /\ calc.h[1] = 2 /\ calc.h[2] = 1
    /\ calc.st[1].value = 22 /\ calc.st[2].value = 12

\* Slice z of a channel, by the index within the slice.
SliceOf(c, z) ==
    [i \in 0..(calc.w * calc.h - 1) |-> c[z * calc.w * calc.h + i]]

\* C23: dithered quantize on a surface of depth d > 1 processes every
\* Z-slice: every pixel of the channel in every slice is replaced by a
\* quantized value (a multiple of 1/scale), and the result of a slice
\* depends only on the input of that slice, so slices that were equal are
\* equal afterwards.
DitherProcessesEverySlice ==
    calc.fn = "quantize" /\ calc.pc = "done" /\ calc.dither =>
        LET scale == IF calc.exactEndPoints THEN 2 ^ calc.bits - 1
                     ELSE 2 ^ calc.bits
            old == calc.input[calc.channel]
            new == calc.img[calc.channel]
        IN  /\ \A i \in DOMAIN new : (new[i].n * scale) % new[i].d = 0
            /\ \A y \in 0..(calc.d - 1), z \in 0..(calc.d - 1) :
                  SliceOf(old, y) = SliceOf(old, z) =>
                      SliceOf(new, y) = SliceOf(new, z)

(***************************************************************************)
(* Surface::toRGBE(mantissaBits, exponentBits) on one pixel, with the      *)
(* values its debug checks look at.                                        *)
(***************************************************************************)
\* 2^e as a fraction, e of either sign.
FPow2(e) == IF e >= 0 THEN Num(2 ^ e) ELSE Frac(1, 2 ^ (-e))

\* floatExponent(x) (nvmath): the exponent field of the float minus 127,
\* floor(log2(x)) for a normal x > 0 and -127 for 0.  The values tried are
\* 0 or between 2^-30 and 2^30.
RECURSIVE ExponentFrom(_, _)
ExponentFrom(x, e) ==
    IF (IF e >= 0 THEN 2 ^ e <= x.n \div x.d ELSE x.d <= x.n * 2 ^ (-e))
    THEN e
    ELSE ExponentFrom(x, e - 1)

floatExponent(x) == IF x.n = 0 THEN -127 ELSE ExponentFrom(x, 30)

\* iround and floatRound (nvmath): to the nearest integer, halves up.
FRound(x) == FFloor(FAdd(x, Frac(1, 2)))

RGBEExponentMax(exponentBits) == 2 ^ exponentBits - 1
RGBEExponentBias(exponentBits) == 2 ^ (exponentBits - 1) - 1

RGBEMaxValue_unscaled(exponentBits) ==
    FPow2(RGBEExponentMax(exponentBits) - RGBEExponentBias(exponentBits))

\* float(exponentMax) / float(exponentMax + 1) * float(1 << (exponentMax - exponentBias))
RGBEMaxValue(exponentBits) ==
    FMul(Frac(RGBEExponentMax(exponentBits), RGBEExponentMax(exponentBits) + 1),
         FPow2(RGBEExponentMax(exponentBits) - RGBEExponentBias(exponentBits)))

\* The loop body: the stored pixel (px) and the intermediate values: the
\* preliminary exponent Ep, the rounded maximum mantissa m, the refined
\* exponent E and the integer mantissas.
toRGBE(p, mantissaBits, exponentBits) ==
    LET exponentBias == RGBEExponentBias(exponentBits)
        maxValue == RGBEMaxValue(exponentBits)
        R  == FClamp(p[1], Num(0), maxValue)
        G  == FClamp(p[2], Num(0), maxValue)
        B  == FClamp(p[3], Num(0), maxValue)
        M  == FMax(FMax(R, G), B)
        Ep == Max2(-exponentBias - 1, floatExponent(M)) + 1 + exponentBias
        denomP == FPow2(Ep - exponentBias - mantissaBits)
        mm == FRound(FDiv(M, denomP))
        carry == mm = 2 ^ mantissaBits
        denom == IF carry THEN FMul(denomP, Num(2)) ELSE denomP
        E  == IF carry THEN Ep + 1 ELSE Ep
        Rs == FRound(FDiv(R, denom))
        Gs == FRound(FDiv(G, denom))
        Bs == FRound(FDiv(B, denom))
    IN  [px |-> << Frac(Rs, 2 ^ mantissaBits - 1), Frac(Gs, 2 ^ mantissaBits - 1),
                   Frac(Bs, 2 ^ mantissaBits - 1), Frac(E, 2 ^ exponentBits - 1) >>,
         Ep |-> Ep, m |-> mm, E |-> E, mantissa |-> <<Rs, Gs, Bs>>]

\* Components around the limits of RGB9_E5: below the smallest exponent, at
\* powers of two, just below a power of two (where the mantissa rounds up to
\* 2^N), at and beyond the largest value, and negative.
RGBEValues ==
    {Num(-1), Num(0), Frac(1, 1048576), Frac(1, 65536), Frac(1, 3), Num(1),
     Frac(2047, 1024), Num(2), Num(3), Frac(4095, 4096),
     Num(63487), Num(63488), Num(70000)}

InitRGBE ==
    /\ NoSurfaces
    /\ \E r \in RGBEValues, g \in RGBEValues, b \in RGBEValues :
          calc = [fn |-> "toRGBE", mantissaBits |-> 9, exponentBits |-> 5,
                  color |-> <<r, g, b, Num(1)>>, px |-> <<r, g, b, Num(1)>>,
                  Ep |-> 0, m |-> 0, E |-> 0, mantissa |-> <<0, 0, 0>>,
                  pc |-> "call"]

toRGBECall ==
    /\ calc.fn = "toRGBE"
    /\ calc.pc = "call"
    /\ LET out == toRGBE(calc.px, calc.mantissaBits, calc.exponentBits)
       IN  calc' = [calc EXCEPT !.px = out.px, !.Ep = out.Ep, !.m = out.m,
                                !.E = out.E, !.mantissa = out.mantissa,
                                !.pc = "done"]
    /\ UNCHANGED <<m, heap, last, fault, ops, ext>>

NextRGBE == toRGBECall

SpecRGBE == InitRGBE /\ [][NextRGBE]_vars

\* C24: for N = 9, E = 5 the preliminary and the refined exponent lie in
\* 0 .. 2^E - 1, the rounded maximum mantissa is at most 2^N and carries
\* (exponent + 1) exactly when it equals 2^N, and every stored mantissa
\* lies in 0 .. 2^N - 1: none of the debug checks of toRGBE can fail.
RGBEChecksHold ==
    calc.fn = "toRGBE" /\ calc.pc = "done" =>
        /\ calc.Ep \in 0..31
        /\ calc.E \in 0..31
        /\ calc.m \in 0..512
        /\ calc.E = IF calc.m = 512 THEN calc.Ep + 1 ELSE calc.Ep
        /\ \A k \in 1..3 : calc.mantissa[k] \in 0..511
        /\ \A k \in 1..3 : calc.px[k] = Frac(calc.mantissa[k], 511)

\* C24 witness: the largest component, 2047/1024, rounds to the mantissa
\* 2^9, the exponent is raised from 16 to 17 and the stored mantissa is 256.
RGBECarried ==
    /\ calc.fn = "toRGBE" /\ calc.pc = "done"
    /\ calc.color = <<Frac(2047, 1024), Num(1), Num(0), Num(1)>>
    /\ calc.m = 512 /\ calc.Ep = 16 /\ calc.E = 17
    /\ calc.mantissa = <<256, 128, 0>>

(***************************************************************************)
(* Surface::transformNormals(NormalTransform_Quartic) on one normal.  The  *)
(* floats of this loop are modelled in fixed point, FxOne units to 1, each *)
(* product and quotient rounded down as it is formed, in the order the     *)
(* expression is written.  A division by zero gives the NaN the float code *)
(* gets (0/0, or an infinity that the next product with 0 turns into NaN). *)
(* The loop's test d > 0.0001 is taken as d > FxTolerance, a coarser test  *)
(* that ends the loop sooner than the code's.                              *)
(***************************************************************************)
FxOne == 1024
FxTolerance == 16

FxMul(a, b) == (a * b) \div FxOne
\* a / b for b # 0.
FxDiv(a, b) == IF b > 0 THEN (a * FxOne) \div b ELSE ((-a) * FxOne) \div (-b)
\* sqrtf(a) for a >= 0.
FxSqrt(a) == CHOOSE r \in 0..(3 * FxOne) : r * r <= a * FxOne /\ a * FxOne < (r + 1) * (r + 1)

\* normalizeSafe(n, Vector3(0.0f), 0.0f) (nvmath): n / |n|, or 0 for |n| = 0.
normalizeSafe(n) ==
    LET l == FxSqrt(FxMul(n[1], n[1]) + FxMul(n[2], n[2]) + FxMul(n[3], n[3]))
    IN  IF l = 0 THEN <<0, 0, 0>>
        ELSE LET il == FxDiv(FxOne, l)
             IN  <<FxMul(n[1], il), FxMul(n[2], il), FxMul(n[3], il)>>

\* The initial approximation t; nan when a = 0.
QuarticInitial(n) ==
    LET a == FxMul(n[1], n[1]) + FxMul(n[2], n[2])
        b == n[3]
        c == -FxOne
        discriminant == FxMul(b, b) - FxMul(FxMul(4 * FxOne, a), c)
    IN  IF 2 * a = 0 THEN [nan |-> TRUE, t |-> 0]
        ELSE [nan |-> FALSE,
              t |-> FxDiv(-b + FxSqrt(discriminant), FxMul(2 * FxOne, a))]

\* d = fabs(n.z * t - (1 - n.x*n.x*t*t) * (1 - n.y*n.y*t*t))
QuarticResidual(n, t) ==
    Abs(FxMul(n[3], t)
        - FxMul(FxOne - FxMul(FxMul(FxMul(n[1], n[1]), t), t),
                FxOne - FxMul(FxMul(FxMul(n[2], n[2]), t), t)))

\* One Newton step, t -= ft / fit; nan when fit = 0.
QuarticStep(n, t) ==
    LET xx == FxMul(n[1], n[1])
        yy == FxMul(n[2], n[2])
        ft == FxOne - FxMul(n[3], t) - FxMul(FxMul(xx + yy, t), t)
              + FxMul(FxMul(FxMul(FxMul(FxMul(FxMul(xx, n[2]), n[2]), t), t), t), t)
        fit == - n[3] - FxMul(FxMul(2 * FxOne, xx + yy), t)
               + FxMul(FxMul(FxMul(FxMul(FxMul(FxMul(FxMul(4 * FxOne, n[1]), n[1]),
                                                n[2]), n[2]), t), t), t)
    IN  IF fit = 0 THEN [nan |-> TRUE, t |-> 0]
        ELSE [nan |-> FALSE, t |-> t - FxDiv(ft, fit)]

\* The normals tried, before normalization: a grid of directions, with the
\* zero vector and the two poles (0, 0, 1) and (0, 0, -1).
QuarticAxis == {-FxOne, -(5 * FxOne) \div 8, 0, (5 * FxOne) \div 8, FxOne}
QuarticNormals ==
    {<<x, y, z>> : x \in QuarticAxis, y \in QuarticAxis \ {-FxOne, FxOne},
                   z \in QuarticAxis \ {-FxOne}}
        \cup {<<0, 0, -FxOne>>}

InitQuartic ==
    /\ NoSurfaces
    /\ \E n \in QuarticNormals :
          calc = [fn |-> "transformNormals", normal |-> n, n |-> n,
                  t |-> 0, nan |-> FALSE, iterations |-> 0, pc |-> "begin"]

QuarticFrame == UNCHANGED <<m, heap, last, fault, ops, ext>>

\* The normal is normalized and the initial approximation computed.
quarticBegin ==
    /\ calc.fn = "transformNormals"
    /\ calc.pc = "begin"
    /\ \E n \in {normalizeSafe(calc.normal)} :
          \E first \in {QuarticInitial(n)} :
             calc' = [calc EXCEPT !.n = n, !.t = first.t, !.nan = first.nan,
                                  !.pc = "while"]
    /\ QuarticFrame

\* while (d > 0.0001): one iteration.  A NaN d fails the test.
quarticLoop ==
    /\ calc.fn = "transformNormals"
    /\ calc.pc = "while"
    /\ ~calc.nan
    /\ QuarticResidual(calc.n, calc.t) > FxTolerance
    /\ \E next \in {QuarticStep(calc.n, calc.t)} :
          calc' = [calc EXCEPT !.t = next.t, !.nan = next.nan,
                               !.iterations = 1]
    /\ QuarticFrame

\* The test fails: the loop is left and the pixel stored.
quarticExit ==
    /\ calc.fn = "transformNormals"
    /\ calc.pc = "while"
    /\ calc.nan \/ QuarticResidual(calc.n, calc.t) <= FxTolerance
    /\ calc' = [calc EXCEPT !.pc = "done"]
    /\ QuarticFrame

NextQuartic ==
    \/ quarticBegin
    \/ quarticLoop
    \/ quarticExit

SpecQuartic == InitQuartic /\ [][NextQuartic]_vars /\ WF_vars(NextQuartic)

\* C25: transformNormals(NormalTransform_Quartic) terminates for every input
\* pixel, degenerate normals included: the Newton loop is left after a
\* bounded number of iterations.
QuarticTerminates == calc.fn = "transformNormals" ~> calc.pc = "done"

(***************************************************************************)
(* The divisions of toRGBM, toLUVW, toGreyScale, average and               *)
(* transformNormals: each operator gives the set of the denominators by    *)
(* which one call divides, in the order of the code, a guarded division    *)
(* being listed only when its guard lets it run.                           *)
(***************************************************************************)
\* sqrtf(x) for x >= 0, rounded down to a multiple of 1/FxOne.
FSqrt(x) ==
    Frac(CHOOSE r \in 0..(2 * FxOne) :
             /\ r * r <= (x.n * FxOne * FxOne) \div x.d
             /\ (x.n * FxOne * FxOne) \div x.d < (r + 1) * (r + 1),
         FxOne)
\* A fraction in fixed point.
FxOf(x) == (x.n * FxOne) \div x.d

\* toRGBM: irange = 1 / range, then R / M, G / M, B / M and
\* (M - threshold) / (1 - threshold) for the pixel.
toRGBMDivisors(p, range, threshold) ==
    LET th == RGBMThreshold(threshold)
        R  == FClamp(p[1], Num(0), Num(1))
        G  == FClamp(p[2], Num(0), Num(1))
        B  == FClamp(p[3], Num(0), Num(1))
        M  == FMax(FMax(R, G), FMax(B, th))
    IN  {range, M, FSub(Num(1), th)}

\* The floor of L in toLUVW.
LUVWFloor == Frac(1, 1000000)

\* toLUVW: irange = 1 / range, then R / L, G / L, B / L.
toLUVWDivisors(p, range) ==
    LET irange == FDiv(Num(1), range)
        R == FClamp(FMul(p[1], irange), Num(0), Num(1))
        G == FClamp(FMul(p[2], irange), Num(0), Num(1))
        B == FClamp(FMul(p[3], irange), Num(0), Num(1))
        L == FMax(FSqrt(FAdd(FAdd(FMul(R, R), FMul(G, G)), FMul(B, B))), LUVWFloor)
    IN  {range, L}

\* toGreyScale: the four scales are divided by their sum.
toGreyScaleDivisors(redScale, greenScale, blueScale, alphaScale) ==
    {FAdd(FAdd(FAdd(redScale, greenScale), blueScale), alphaScale)}

\* The test of average before its division.
AverageGuard(denom) == denom.n = 0

\* average with an alpha channel: sum / alpha_sum unless alpha_sum == 0.
averageDivisors(alpha) ==
    LET denom == FAdd(alpha[1], alpha[2])
    IN  IF AverageGuard(denom) THEN {} ELSE {denom}

\* transformNormals on one expanded normal: the division of normalizeSafe,
\* then that of the transform (for Quartic, that of the initial approximation).
transformNormalsDivisors(xform, normal) ==
    LET l == FxSqrt(FxMul(normal[1], normal[1]) + FxMul(normal[2], normal[2])
                    + FxMul(normal[3], normal[3]))
        n == normalizeSafe(normal)
        a == FxMul(n[1], n[1]) + FxMul(n[2], n[2])
    IN  (IF l = 0 THEN {} ELSE {Frac(l, FxOne)})
        \cup (CASE xform = "Orthographic" -> {}
                [] xform = "Stereographic" -> {Frac(FxOne + n[3], FxOne)}
                [] xform \in {"Paraboloid", "Quartic"} ->
                       {Frac(FxMul(2 * FxOne, a), FxOne)})

DivisorColors ==
    {<<r, g, b, Num(1)>> : r \in {Num(0), Frac(1, 2)}, g \in {Num(0), Num(1)},
                           b \in {Num(0), Num(2)}}
DivisorThresholds == {Num(0), Frac(1, 4), Num(1), Num(2)}
DivisorScales == {Num(-1), Num(0), Num(1)}
DivisorAlphas == {Num(0), Frac(1, 2), Num(1)}
DivisorAxis == {Num(-1), Num(0), Frac(5, 8), Num(1)}
NormalTransforms == {"Orthographic", "Stereographic", "Paraboloid", "Quartic"}

\* calc holds the call (op, args) and, once it has run, the denominators by
\* which it divided.
DivisorCall(op, args) ==
    calc = [fn |-> "divisors", op |-> op, args |-> args, divisors |-> {},
            pc |-> "call"]

InitDivisors ==
    /\ NoSurfaces
    /\ \/ \E p \in DivisorColors, range \in RGBMRanges, th \in DivisorThresholds :
             DivisorCall("toRGBM", <<p, range, th>>)
       \/ \E p \in DivisorColors, range \in RGBMRanges :
             DivisorCall("toLUVW", <<p, range>>)
       \/ \E r \in DivisorScales, g \in DivisorScales, b \in DivisorScales,
             a \in DivisorScales :
             DivisorCall("toGreyScale", <<r, g, b, a>>)
       \/ \E a1 \in DivisorAlphas, a2 \in DivisorAlphas :
             DivisorCall("average", <<a1, a2>>)
       \/ \E xform \in NormalTransforms, x \in DivisorAxis, y \in DivisorAxis,
             z \in DivisorAxis :
             DivisorCall("transformNormals", <<xform, <<x, y, z>>>>)

Divides(op, divisors) ==
    /\ calc.fn = "divisors"
    /\ calc.op = op
    /\ calc.pc = "call"
    /\ calc' = [calc EXCEPT !.divisors = divisors, !.pc = "done"]
    /\ UNCHANGED <<m, heap, last, fault, ops, ext>>

toRGBMDivides ==
    Divides("toRGBM", toRGBMDivisors(calc.args[1], calc.args[2], calc.args[3]))
toLUVWDivides == Divides("toLUVW", toLUVWDivisors(calc.args[1], calc.args[2]))
toGreyScaleDivides ==
    Divides("toGreyScale",
            toGreyScaleDivisors(calc.args[1], calc.args[2], calc.args[3],
                                calc.args[4]))
averageDivides == Divides("average", averageDivisors(calc.args))
transformNormalsDivides ==
    Divides("transformNormals",
            transformNormalsDivisors(calc.args[1],
                <<FxOf(calc.args[2][1]), FxOf(calc.args[2][2]),
                  FxOf(calc.args[2][3])>>))

NextDivisors ==
    \/ toRGBMDivides
    \/ toLUVWDivides
    \/ toGreyScaleDivides
    \/ averageDivides
    \/ transformNormalsDivides

SpecDivisors == InitDivisors /\ [][NextDivisors]_vars

\* C26: toRGBM, toLUVW, toGreyScale, average and transformNormals never
\* execute a division whose denominator is zero.
NoZeroDenominator ==
    calc.fn = "divisors" => \A q \in calc.divisors : q.n # 0

(***************************************************************************)
(* Surface::blockScaleCoCg on a w x h image of depth 1, one 4x4 block per  *)
(* step.  calc.image holds the pixels <<Co, Cg, scale, Y>> in row-major    *)
(* order (pixel (x, y) at index y * w + x, counted from 0), calc.divided   *)
(* the number of times each pixel's Co and Cg were divided.  An access     *)
(* whose index lies outside the buffer is undefined behaviour: the call    *)
(* ends in the state "undefined", of which nothing more is said.           *)
(***************************************************************************)
MaxScaleW == 8
MaxScaleH == 5

\* The image before toYCoCg: colors in [0, 1] that vary from pixel to pixel.
BlockColor(i, k) ==
    << Frac((i * k) % 3, 2), Frac((i + k) % 2, 1), Frac((i + 2 * k) % 5, 4), Num(1) >>

\* FloatImage::pixel(c, x, y, 0): the index of the sample.
BlockIndex(x, y, w) == y * w + x

\* The pixels a block reads for its scale: those of its 4x4 window within the image.
BlockReads(bi, bj, w, h) ==
    {BlockIndex(bi * 4 + i, bj * 4 + j, w) :
        <<i, j>> \in {c \in (0..3) \X (0..3) : bi * 4 + c[1] < w /\ bj * 4 + c[2] < h}}

\* m: the largest |Co| and |Cg| of the block, at least 1/255.
RECURSIVE BlockMax(_, _)
BlockMax(image, reads) ==
    IF reads = {} THEN Frac(1, 255)
    ELSE LET k == CHOOSE r \in reads : TRUE
         IN  FMax(FMax(FAbs(image[k + 1][1]), FAbs(image[k + 1][2])),
                  BlockMax(image, reads \ {k}))

\* The coordinate the second loop clamps to.
BlockClamp(v, extent) == Min2(v, extent)

\* The index each of the 16 iterations of the second loop addresses.
BlockWrites(bi, bj, w, h) ==
    [c \in (0..3) \X (0..3) |->
        BlockIndex(BlockClamp(bi * 4 + c[1], w), BlockClamp(bj * 4 + c[2], h), w)]

\* How many of the 16 iterations address the pixel at index k.
BlockHits(bi, bj, w, h, k) ==
    Cardinality({c \in (0..3) \X (0..3) : BlockWrites(bi, bj, w, h)[c] = k})

\* x /= scale, n times.
RECURSIVE DividedBy(_, _, _)
DividedBy(x, scale, n) == IF n = 0 THEN x ELSE DividedBy(FDiv(x, scale), scale, n - 1)

\* The image after the second loop of one block: Co /= scale and Cg /= scale
\* once per iteration that addresses the pixel, the scale stored in channel 2.
BlockScaled(image, bi, bj, w, h, scale) ==
    [k \in 1..Len(image) |->
        LET hits == BlockHits(bi, bj, w, h, k - 1)
        IN  IF hits = 0 THEN image[k]
            ELSE << DividedBy(image[k][1], scale, hits),
                    DividedBy(image[k][2], scale, hits), scale, image[k][4] >>]

InitBlockScale ==
    /\ NoSurfaces
    /\ \E w \in 1..MaxScaleW, h \in 1..MaxScaleH, k \in 1..2, slack \in {0, 1} :
          calc = [fn |-> "blockScaleCoCg", w |-> w, h |-> h,
                  color |-> [i \in 1..(w * h) |-> BlockColor(i, k)],
                  image |-> [i \in 1..(w * h) |-> toYCoCg(BlockColor(i, k))],
                  divided |-> [i \in 1..(w * h) |-> 0],
                  scaleOf |-> [i \in 1..(w * h) |-> Num(0)],
                  slack |-> Frac(slack, 4),
                  bi |-> 0, bj |-> 0, pc |-> "block"]

BlockScaleFrame == UNCHANGED <<m, heap, last, fault, ops, ext>>

\* One iteration of the loops over bj and bi: the block's scale, then the
\* second loop.  quantizeCeil returns a value >= m (checked at 1748); it is
\* taken as m + slack.
blockScaleBlock ==
    /\ calc.fn = "blockScaleCoCg"
    /\ calc.pc = "block"
    /\ calc.bj < Max2(1, calc.h \div 4)
    /\ LET w == calc.w
           h == calc.h
           bw == Max2(1, w \div 4)
           scale == FAdd(BlockMax(calc.image, BlockReads(calc.bi, calc.bj, w, h)),
                         calc.slack)
           writes == BlockWrites(calc.bi, calc.bj, w, h)
       IN  IF \E c \in DOMAIN writes : writes[c] >= w * h
           THEN calc' = [calc EXCEPT !.pc = "undefined"]
           ELSE calc' = [calc EXCEPT
                    !.image = BlockScaled(calc.image, calc.bi, calc.bj, w, h, scale),
                    !.divided = [k \in 1..(w * h) |->
                                    calc.divided[k]
                                    + BlockHits(calc.bi, calc.bj, w, h, k - 1)],
                    !.scaleOf = [k \in 1..(w * h) |->
                                    IF k - 1 \in BlockReads(calc.bi, calc.bj, w, h)
                                    THEN scale ELSE calc.scaleOf[k]],
                    !.bi = IF calc.bi + 1 < bw THEN calc.bi + 1 ELSE 0,
                    !.bj = IF calc.bi + 1 < bw THEN calc.bj ELSE calc.bj + 1]
    /\ BlockScaleFrame

\* The loops are over: blockScaleCoCg returns.
blockScaleReturn ==
    /\ calc.fn = "blockScaleCoCg"
    /\ calc.pc = "block"
    /\ calc.bj >= Max2(1, calc.h \div 4)
    /\ calc' = [calc EXCEPT !.pc = "scaled"]
    /\ BlockScaleFrame

\* fromYCoCg on every pixel.
blockFromYCoCg ==
    /\ calc.fn = "blockScaleCoCg"
    /\ calc.pc = "scaled"
    /\ calc' = [calc EXCEPT
                   !.image = [k \in 1..Len(calc.image) |-> fromYCoCg(calc.image[k])],
                   !.pc = "decoded"]
    /\ BlockScaleFrame

NextBlockScale ==
    \/ blockScaleBlock
    \/ blockScaleReturn
    \/ blockFromYCoCg

SpecBlockScale == InitBlockScale /\ [][NextBlockScale]_vars

\* C27: blockScaleCoCg, for every width and height >= 1, touches no sample
\* outside the image, divides the Co and Cg of every pixel exactly once by
\* the scale of its block, leaves |Co| <= 1 and |Cg| <= 1, and stores that
\* scale in channel 2; fromYCoCg then returns the original color.
BlockScaleCoversImage ==
    calc.fn = "blockScaleCoCg" =>
        /\ calc.pc # "undefined"
        /\ calc.pc = "scaled" =>
              \A k \in 1..(calc.w * calc.h) :
                 /\ calc.divided[k] = 1
                 /\ calc.image[k][3] = calc.scaleOf[k]
                 /\ FLeq(FAbs(calc.image[k][1]), Num(1))
                 /\ FLeq(FAbs(calc.image[k][2]), Num(1))
        /\ calc.pc = "decoded" => calc.image = calc.color

(***************************************************************************)
(* getTargetExtent applied to its own result, and the resize that follows. *)
(***************************************************************************)
\* The test of Surface::resize(w, h, d, ...) that makes it return at once,
\* for the extents resize(maxExtent, roundMode, ...) computes from the image
\* of handle s.
ResizeMaxReturnsAtOnce(s, maxExtent, roundMode) ==
    \/ isNullOf(s)
    \/ getTargetExtent([w |-> widthOf(s), h |-> heightOf(s), d |-> depthOf(s)],
                       maxExtent, roundMode, State(s).type)
          = [w |-> widthOf(s), h |-> heightOf(s), d |-> depthOf(s)]

\* C28: every dimension getTargetExtent returns is >= 1 and, under a
\* rounding mode, a power of two; getTargetExtent applied to the returned
\* extents with the same arguments returns them unchanged.
TargetExtentIdempotent ==
    ext.called =>
        /\ ext.out.w >= 1 /\ ext.out.h >= 1 /\ ext.out.d >= 1
        /\ ext.roundMode # RoundMode_None =>
              {ext.out.w, ext.out.h, ext.out.d} \subseteq PowersOfTwo
        /\ getTargetExtent(ext.out, ext.maxExtent, ext.roundMode, ext.textureType)
              = ext.out

\* C28, its case: a call that scaled to the cap, averaged the faces of a
\* cube and rounded, returning extents other than those given.
TargetExtentChanged ==
    /\ ext.called
    /\ ext.textureType = TextureType_Cube
    /\ ext.roundMode = RoundMode_ToNearestPowerOfTwo
    /\ ext.maxExtent > 0
    /\ Max2(ext.e.w, ext.e.h) > ext.cap
    /\ ext.pre.w # ext.e.w
    /\ ext.out.w # ext.pre.w
    /\ ext.out # ext.e

\* C28, for the handles: after a resize(maxExtent, roundMode, ...) that
\* changed the image, the same call returns at once, before detach.
SecondResizeReturnsAtOnce ==
    [][last'.op = "resize" =>
          \A s \in Handles, cap \in 0..MaxDim, rm \in RoundModes :
              (\E v \in FilterValues : resizeMax(s, cap, rm, v)) =>
                  ResizeMaxReturnsAtOnce(s, cap, rm)']_vars

(***************************************************************************)
(* Surface::countMipmaps() against the calls of buildNextMipmap that       *)
(* succeed.                                                                *)
(***************************************************************************)
\* nv::countMipmaps(uint w, uint h, uint d)
RECURSIVE countMipmaps3(_, _, _)
countMipmaps3(w, h, d) ==
    IF w # 1 \/ h # 1 \/ d # 1
    THEN countMipmaps3(MipHalve(w), MipHalve(h), MipHalve(d)) + 1
    ELSE 1

\* Surface::countMipmaps(): 0 without an image, else the count for the
\* width, the height and the depth 1.
SurfaceCountMipmaps(s) ==
    IF isNullOf(s) THEN 0 ELSE countMipmaps3(widthOf(s), heightOf(s), 1)

\* How many calls of buildNextMipmap return true from an image of w x h x d.
RECURSIVE MipmapsToBuild(_, _, _)
MipmapsToBuild(w, h, d) ==
    IF w = 1 /\ h = 1 /\ d = 1
    THEN 0
    ELSE MipmapsToBuild(HalfExtent(w), HalfExtent(h), HalfExtent(d)) + 1

\* C29: countMipmaps() is 0 for a null surface; for a surface of w x h x d,
\* buildNextMipmap returns true exactly countMipmaps() - 1 times before it
\* returns false at 1 x 1 x 1.
MipChainLength ==
    \A s \in Handles :
        Alive(s) =>
            IF isNullOf(s)
            THEN SurfaceCountMipmaps(s) = 0
            ELSE MipmapsToBuild(widthOf(s), heightOf(s), depthOf(s))
                    = SurfaceCountMipmaps(s) - 1

(***************************************************************************)
(* nv::Thread (Thread.cpp).  calc.handle[t] is p->thread of object t, 0 or *)
(* the id of an operating-system thread; calc.func[id] tells whether the   *)
(* thread function of that thread has not started, runs or has returned.   *)
(* One caller starts, waits for and destroys the objects; the thread       *)
(* functions return on their own.  Thread creation succeeds (the checks of *)
(* start), and wait is called on started objects only.                     *)
(***************************************************************************)
\* The objects of the array given to Thread::wait(threads, count).
MaxThreadObjects == 2
\* Most operating-system threads created in a run.
MaxOsThreads == 3

ThreadObjects == 1..MaxThreadObjects

InitThreadLife ==
    /\ NoSurfaces
    /\ calc = [fn |-> "Thread",
               handle |-> [t \in ThreadObjects |-> 0],
               destroyed |-> [t \in ThreadObjects |-> FALSE],
               check |-> [t \in ThreadObjects |-> "none"],
               pending |-> [t \in ThreadObjects |-> FALSE],
               func |-> [id \in 1..MaxOsThreads |-> "none"],
               created |-> 0,
               joined |-> {},
               pc |-> "idle", t |-> 0, count |-> 0,
               returned |-> [op |-> "none", n |-> 0]]

ThreadLifeFrame == UNCHANGED <<m, heap, last, fault, ops, ext>>

Idle == calc.fn = "Thread" /\ calc.pc = "idle"

\* Thread::isRunning
isRunning(t) == calc.handle[t] # 0

\* Thread::start: pthread_create or CreateThread stores the new thread in
\* p->thread; its function starts to run.
start(t) ==
    /\ Idle
    /\ ~calc.destroyed[t]
    /\ calc.created < MaxOsThreads
    /\ calc' = [calc EXCEPT !.created = calc.created + 1,
                            !.handle[t] = calc.created + 1,
                            !.func[calc.created + 1] = "running",
                            !.pending[t] = TRUE,
                            !.returned = [op |-> "none", n |-> 0]]
    /\ ThreadLifeFrame

\* threadFunc: thread->func(thread->arg) returns.
threadFunc(id) ==
    /\ calc.fn = "Thread"
    /\ calc.func[id] = "running"
    /\ calc' = [calc EXCEPT !.func[id] = "finished"]
    /\ ThreadLifeFrame

\* A faulty variant: the join does not wait.
Joinable_always(state) == TRUE

\* pthread_join and WaitForSingleObject return once the thread has ended.
Joinable(state) == state = "finished"

\* The body of Thread::wait on object t, once the join has returned.
Joined(c, t) ==
    [c EXCEPT !.joined = c.joined \cup {c.handle[t]},
              !.handle[t] = 0,
              !.pending[t] = FALSE]

\* Thread::wait() is called and blocks in the join.
waitCall(t) ==
    /\ Idle
    /\ ~calc.destroyed[t]
    /\ isRunning(t)
    /\ calc' = [calc EXCEPT !.pc = "wait", !.t = t]
    /\ ThreadLifeFrame

\* Thread::wait() returns.
waitReturn ==
    /\ calc.fn = "Thread"
    /\ calc.pc = "wait"
    /\ Joinable(calc.func[calc.handle[calc.t]])
    /\ calc' = [Joined(calc, calc.t) EXCEPT !.pc = "idle",
                                            !.returned = [op |-> "wait", n |-> calc.t]]
    /\ ThreadLifeFrame

\* Thread::wait(threads, count) is called.
waitAllCall(count) ==
    /\ Idle
    /\ \A t \in 1..count : ~calc.destroyed[t] /\ isRunning(t)
    /\ calc' = [calc EXCEPT !.pc = "waitAll", !.t = 1, !.count = count]
    /\ ThreadLifeFrame

\* for (i = 0; i < count; i++) threads[i].wait();  one iteration.
waitAllLoop ==
    /\ calc.fn = "Thread"
    /\ calc.pc = "waitAll"
    /\ calc.t <= calc.count
    /\ Joinable(calc.func[calc.handle[calc.t]])
    /\ calc' = [Joined(calc, calc.t) EXCEPT !.t = calc.t + 1]
    /\ ThreadLifeFrame

\* Thread::wait(threads, count) returns.
waitAllReturn ==
    /\ calc.fn = "Thread"
    /\ calc.pc = "waitAll"
    /\ calc.t > calc.count
    /\ calc' = [calc EXCEPT !.pc = "idle",
                            !.returned = [op |-> "waitAll", n |-> calc.count]]
    /\ ThreadLifeFrame

\* Thread::~Thread: nvDebugCheck(p->thread == 0).
destroy(t) ==
    /\ Idle
    /\ ~calc.destroyed[t]
    /\ calc' = [calc EXCEPT !.destroyed[t] = TRUE,
                            !.check[t] = IF calc.handle[t] = 0 THEN "passed"
                                         ELSE "failed"]
    /\ ThreadLifeFrame

NextThreadLife ==
    \/ \E t \in ThreadObjects : start(t)
    \/ \E id \in 1..MaxOsThreads : threadFunc(id)
    \/ \E t \in ThreadObjects : waitCall(t)
    \/ waitReturn
    \/ \E count \in ThreadObjects : waitAllCall(count)
    \/ waitAllLoop
    \/ waitAllReturn
    \/ \E t \in ThreadObjects : destroy(t)

SpecThreadLife == InitThreadLife /\ [][NextThreadLife]_vars

\* C30: a Thread is not running after construction; isRunning() is true
\* from start() until wait() returns, whether or not the thread function
\* has finished; wait() returns only after the function of the thread it
\* joined has completed, and resets the handle; Thread::wait(threads, count)
\* returns only after all count threads are joined; the destructor's check
\* holds exactly for objects never started or whose every start() was
\* followed by a wait() (calc.pending[t]: some start() of t was not).
ThreadLifecycle ==
    calc.fn = "Thread" =>
        /\ \A t \in ThreadObjects : isRunning(t) <=> calc.pending[t]
        /\ \A id \in calc.joined : calc.func[id] = "finished"
        /\ calc.returned.op = "wait" => ~isRunning(calc.returned.n)
        /\ calc.returned.op = "waitAll" =>
              \A t \in 1..calc.returned.n : ~isRunning(t)
        /\ \A t \in ThreadObjects :
              calc.destroyed[t] => (calc.check[t] = "passed" <=> ~calc.pending[t])

\* C30, its case: Thread::wait(threads, 2) has returned after both thread
\* functions, object 1 was restarted and is running although its function
\* has returned, and object 2 was destroyed with its check passed.
ThreadsJoinedAndRestarted ==
    /\ calc.fn = "Thread"
    /\ calc.joined = {1, 2}
    /\ isRunning(1)
    /\ calc.func[calc.handle[1]] = "finished"
    /\ calc.destroyed[2]
    /\ calc.check[2] = "passed"

=============================================================================
